---- MODULE Spec2Model ----
(***************************************************************************)
(* A model of JSONElement (json-element.js): the change batching and       *)
(* notification protocol of a tree of JSONElement instances, the           *)
(* structural diff that produces JSON Patch operations, and the            *)
(* compilation of a schema to the getters that assemble an element's JSON. *)
(*                                                                         *)
(* Strings that the code takes apart (object keys, JSON Pointer paths) are *)
(* sequences of one-character strings; strings that it only passes around  *)
(* (attribute values, string scalars) are TLA+ strings.                    *)
(***************************************************************************)
EXTENDS Integers, Sequences, FiniteSets, TLC

(***************************************************************************)
(* JSON values.  Every kind of value has its own record shape.             *)
(*   null       [t |-> "null"]                                             *)
(*   boolean    [t |-> "bool", b |-> TRUE]                                 *)
(*   number     [t |-> "num",  n |-> 1]                                    *)
(*   string     [t |-> "str",  s |-> "x"]                                  *)
(*   array      [t |-> "arr",  a |-> <<v1, ..., vn>>]                      *)
(*   object     [t |-> "obj",  ks |-> <<k1, ..., kn>>, vs |-> <<v1..vn>>]  *)
(*              (own keys in property order, ks[i] maps to vs[i])          *)
(* and JavaScript's undefined is [t |-> "undef"].                          *)
(***************************************************************************)
Null == [t |-> "null"]

Undefined == [t |-> "undef"]

Bool(b) == [t |-> "bool", b |-> b]

Num(n) == [t |-> "num", n |-> n]

Str(s) == [t |-> "str", s |-> s]

Arr(a) == [t |-> "arr", a |-> a]

Obj(ks, vs) == [t |-> "obj", ks |-> ks, vs |-> vs]

Range(s) == {s[i] : i \in DOMAIN s}

\* the decimal digits; array indices of the model stay below 10
Digits == <<"0", "1", "2", "3", "4", "5", "6", "7", "8", "9">>

\* "" + i
IndexKey(i) == <<Digits[i + 1]>>

IsIndexKey(k) == Len(k) = 1 /\ \E i \in 0..9 : k = IndexKey(i)

IndexOf(k) == CHOOSE i \in 0..9 : k = IndexKey(i)

LengthKey == <<"l", "e", "n", "g", "t", "h">>

\* typeof x === "object"
TypeofObject(x) == x.t \in {"null", "arr", "obj"}

\* a function object; typeof gives "function"
Function == [t |-> "function"]

ConstructorKey == <<"c", "o", "n", "s", "t", "r", "u", "c", "t", "o", "r">>

\* a property every array and every plain object inherits from its prototype
Inherited == {ConstructorKey}

\* obj[prop] of an array or a plain object with the given own keys: the own
\* property, or else the one found on the prototype chain
Get(obj, prop) ==
  IF obj.t = "arr" /\ IsIndexKey(prop) /\ IndexOf(prop) < Len(obj.a)
  THEN obj.a[IndexOf(prop) + 1]
  ELSE IF obj.t = "arr" /\ prop = LengthKey THEN Num(Len(obj.a))
  ELSE IF obj.t = "obj" /\ \E i \in DOMAIN obj.ks : obj.ks[i] = prop
  THEN obj.vs[CHOOSE i \in DOMAIN obj.ks : obj.ks[i] = prop]
  ELSE IF prop \in Inherited THEN Function
  ELSE Undefined

\* prev === next; containers are strictly equal only as the same reference,
\* and shared says whether equal containers of the two sides are one reference
StrictEqual(x, y, shared) ==
  IF x.t \in {"arr", "obj"} \/ y.t \in {"arr", "obj"} THEN shared /\ x = y ELSE x = y

keys(obj) ==
  IF obj.t = "arr" THEN [i \in 1..Len(obj.a) |-> IndexKey(i - 1)] ELSE obj.ks

RECURSIVE Escape(_, _)
\* prop.replace(/c/g, rep) for a one-character c
Escape(prop, cr) ==
  IF prop = <<>> THEN <<>>
  ELSE (IF Head(prop) = cr[1] THEN cr[2] ELSE <<Head(prop)>>) \o Escape(Tail(prop), cr)

\* append that escapes / before ~
appendSlashFirst(path, prop) ==
  path \o <<"/">> \o Escape(Escape(prop, <<"/", <<"~", "1">>>>), <<"~", <<"~", "0">>>>)

append(path, prop) ==
  path \o <<"/">> \o Escape(Escape(prop, <<"~", <<"~", "0">>>>), <<"/", <<"~", "1">>>>)

\* typeof x !== "object", without the test for null
isScalarNoNull(x) == ~ TypeofObject(x)

isScalar(x) == ~ TypeofObject(x) \/ x.t = "null"

\* what a call of diff leaves when it raises a TypeError instead of returning
\* a list; a list that holds this element stands for the raised error
Raised == <<[op |-> "TypeError"]>>

RECURSIVE diff(_, _, _, _)
RECURSIVE DiffAdded(_, _, _, _, _)
\* the first loop of diff over ks, the keys of next still to visit
DiffAdded(prev, next, path, shared, ks) ==
  IF ks = <<>> THEN <<>>
  ELSE LET prop == Head(ks)
           newPath == append(path, prop)
           pv == Get(prev, prop)
           nv == Get(next, prop)
           here == IF pv.t = "undef"
                   THEN <<[op |-> "add", path |-> newPath, value |-> nv]>>
                   ELSE IF TypeofObject(nv) /\ TypeofObject(pv)
                   THEN diff(pv, nv, newPath, shared)
                   ELSE IF ~ StrictEqual(pv, nv, shared)
                   THEN <<[op |-> "replace", path |-> newPath, value |-> nv]>>
                   ELSE <<>>
       IN here \o DiffAdded(prev, next, path, shared, Tail(ks))

RECURSIVE DiffRemoved(_, _, _)
\* the second loop of diff over ks, the keys of prev still to visit
DiffRemoved(next, path, ks) ==
  IF ks = <<>> THEN <<>>
  ELSE (IF Get(next, Head(ks)).t = "undef"
        THEN <<[op |-> "remove", path |-> append(path, Head(ks))]>>
        ELSE <<>>) \o DiffRemoved(next, path, Tail(ks))

\* diff without its first line, the return on strictly equal values
diffNoShortcut(prev, next, path, shared) ==
  IF isScalar(prev) \/ isScalar(next)
  THEN <<[op |-> "replace", path |-> path, value |-> next]>>
  ELSE DiffAdded(prev, next, path, shared, keys(next))
       \o DiffRemoved(next, path, keys(prev))

diff(prev, next, path, shared) ==
  IF StrictEqual(prev, next, shared) THEN <<>>
  ELSE IF isScalar(prev) \/ isScalar(next)
  THEN <<[op |-> "replace", path |-> path, value |-> next]>>
  \* Object.keys(null) and null[prop] raise a TypeError
  ELSE IF prev.t \in {"null", "undef"} \/ next.t \in {"null", "undef"} THEN Raised
  ELSE DiffAdded(prev, next, path, shared, keys(next))
       \o DiffRemoved(next, path, keys(prev))

(***************************************************************************)
(* The DOM.  Elements 1..NumEls are JSONElement instances of one class     *)
(* with schema {string: String, array: Array}; element c is only ever      *)
(* inserted under Home(c), where 0 is the document.                        *)
(***************************************************************************)
NumEls == 4

\* the most operations one synchronous script (one call stack) performs
MaxOps == 2

Elements == 1..NumEls

Doc == 0

\* Parent of a detached node
None == -1

\* a target of a json-change event that is not a JSONElement
Foreign == -2

Home(c) == c \div 2

\* the values a script sets the attribute to (Null would be removeAttribute)
AttrValues == {Str("x")}

StringKey == <<"s", "t", "r", "i", "n", "g">>

ArrayKey == <<"a", "r", "r", "a", "y">>

VARIABLES
  kids,        \* kids[n]: the children of node n (an element or Doc), in document order
  attr,        \* attr[e]: getAttribute("string") of element e
  diffAttr,    \* diffAttr[e]: hasAttribute("diff")
  diffEnabled, \* enableDiff() was called: JSONElement.diff is the function diff
  queued,      \* #queued of every element
  prev,        \* #prev of every element
  queue,       \* the microtask queue
  signalSlots, \* hosts whose slot was signalled and whose slotchange event is not yet fired
  running,     \* a synchronous script is on the call stack
  ops,         \* the number of operations the running (or last) script has performed
  watch,       \* which history is recorded: "update" (update, log, lastEvent, delivered),
               \* "trigger" (trig, owed), "patch" (lastEvent, sent) or "json" (the same,
               \* sent with the JSON of every notification); the program reads no history
  update,      \* history: what the current script has done
  log,         \* history: the notifications dispatched since the current script began
  lastEvent,   \* history: the last json-change event dispatched
  delivered,   \* history: <<n, target>> for every listener added on n that received lastEvent
  trig,        \* history: trig[e], e received a trigger and has not dispatched since
  owed,        \* history: owed[p], the children of p triggered while slotted in p since
               \* p's last dispatch
  sent         \* history: sent[e], whether e had the diff attribute at its last
               \* notification, the JSON of e at it if it had, and whether e had the
               \* attribute at any notification

\* one use of diff on its own, and of its patches
VARIABLES
  pc,          \* "off", or how far the use has come: "input", "diffed", "applied"
  prevIn,      \* the previous JSON value
  nextIn,      \* the current JSON value
  sameRef,     \* equal containers of prevIn and nextIn are the same reference
  patchesOut,  \* diff(prevIn, nextIn)
  applied      \* prevIn with the patches applied in order

\* one element class, one instance of it (the host) and the reads of its json
VARIABLES
  authored,    \* the class body as written: the entries of `static schema = {...}`, in
               \* declaration order
  cls,         \* "off", or the class: "authored" (not evaluated), "defined", "failed"
  classSchema, \* the static schema of the class
  registry,    \* customElements.get(tag): "none" or "this"
  hostEl,      \* <<>> or <<h>>, h the one instance of the class
  thrown,      \* the last error thrown by the class definition or by a construction
  signal,      \* a slot of the host was signalled and its slotchange event is not yet fired
  reads        \* the values host.json returned since the last DOM mutation (the last two)

asm == <<authored, cls, classSchema, registry, hostEl, thrown, signal, reads>>

NoError == [message |-> "none", at |-> "none"]

\* the registry of custom elements and the calls of register
VARIABLES
  definitions, \* definitions[t]: customElements.get(t), NoClass for undefined
  firstCall,   \* history: firstCall[t], the class of the first call of register whose tag
               \* was t, NoClass before it
  lastCall     \* history: the last call of register and how it ended

tags == <<definitions, firstCall, lastCall>>

\* the tag names: the static tag of JSONElement and two others
Tags == {"json-webcomponent", "x-a", "x-b"}

\* JSONElement and three classes that extend it: A and B both declare
\* static tag = "x-a", C declares no tag
Classes == {"JSONElement", "A", "B", "C"}

NoClass == "undefined"

\* static tag of class c, inherited where c declares none
tag(c) == IF c \in {"A", "B"} THEN "x-a" ELSE "json-webcomponent"

NoCall == [class |-> NoClass, tag |-> "none", threw |-> "none", warned |-> FALSE]

NoTags ==
  /\ definitions = [t \in Tags |-> NoClass]
  /\ firstCall = [t \in Tags |-> NoClass]
  /\ lastCall = NoCall


SchemaOff ==
  /\ authored = <<>>
  /\ cls = "off"
  /\ classSchema = Obj(<<>>, <<>>)
  /\ registry = "none"
  /\ hostEl = <<>>
  /\ thrown = NoError
  /\ signal = FALSE
  /\ reads = <<>>
  /\ NoTags

io == <<pc, prevIn, nextIn, sameRef, patchesOut, applied>>

dom == <<kids, attr, diffAttr>>

hist == <<update, log, lastEvent, delivered, trig, owed, sent>>

vars == <<kids, attr, diffAttr, diffEnabled, queued, prev, queue, signalSlots, running, ops,
          watch, update, log, lastEvent, delivered, trig, owed, sent, io, asm, tags>>

Parent(n) ==
  IF \E p \in Elements \cup {Doc} : n \in Range(kids[p])
  THEN CHOOSE p \in Elements \cup {Doc} : n \in Range(kids[p])
  ELSE None

RECURSIVE Ancestors(_)
\* the elements above n, nearest first
Ancestors(n) ==
  IF Parent(n) \in Elements THEN <<Parent(n)>> \o Ancestors(Parent(n)) ELSE <<>>

RECURSIVE IsConnected(_)
IsConnected(n) == n = Doc \/ (Parent(n) # None /\ IsConnected(Parent(n)))

RECURSIVE Subtree(_)
RECURSIVE Subtrees(_)
\* n and its descendants in tree order
Subtree(n) == <<n>> \o Subtrees(kids[n])

Subtrees(ns) == IF ns = <<>> THEN <<>> ELSE Subtree(Head(ns)) \o Subtrees(Tail(ns))

(***************************************************************************)
(* Value getters and the json accessor.                                    *)
(***************************************************************************)
\* value || undefined
string(value) == IF value = Null \/ value = Str("") THEN Undefined ELSE value

\* #slotted(key): the JSONElement children assigned to the slot
slotted(e) == SelectSeq(kids[e], LAMBDA c : c \in Elements)

RECURSIVE json(_)
\* els.map(el => el.json)
array(els) == Arr([i \in DOMAIN els |-> json(els[i])])

json(e) ==
  LET s == string(attr[e])
      a == array(slotted(e))
  IN IF s = Undefined THEN Obj(<<ArrayKey>>, <<a>>) ELSE Obj(<<StringKey, ArrayKey>>, <<s, a>>)

(***************************************************************************)
(* The element state that the callbacks change, as one record, so that a   *)
(* callback is an operator from state to state.                            *)
(***************************************************************************)
Cur ==
  [queue |-> queue, queued |-> queued, prev |-> prev, log |-> log, lastEvent |-> lastEvent,
   delivered |-> delivered, trig |-> trig, owed |-> owed, sent |-> sent]

Commit(s) ==
  /\ queue' = s.queue
  /\ queued' = s.queued
  /\ prev' = s.prev
  /\ log' = s.log
  /\ lastEvent' = s.lastEvent
  /\ delivered' = s.delivered
  /\ trig' = s.trig
  /\ owed' = s.owed
  /\ sent' = s.sent

\* queueMicrotask that runs the task before the tasks already queued
ScheduleFirst(s, e, by) ==
  [s EXCEPT !.queue = <<[type |-> "notify", el |-> e, by |-> by]>> \o @]

\* queueMicrotask(() => this.#notify()); by is the element whose notification
\* caused it, Doc for a trigger of the element's own
Schedule(s, e, by) ==
  [s EXCEPT !.queue = Append(@, [type |-> "notify", el |-> e, by |-> by])]

\* #queue() that does not look at #queued
QueueAlways(s, e, by) == [Schedule(s, e, by) EXCEPT !.queued[e] = TRUE]

\* #queue()
Queue(s, e, by) ==
  [(IF ~ s.queued[e] THEN Schedule(s, e, by) ELSE s) EXCEPT !.queued[e] = TRUE]

\* handleEvent(ev) that stops the event for the ancestors only
handleEventStopPropagation(s, e, ev) ==
  IF ev.type = "slotchange" THEN [s |-> Queue(s, e, Doc), stop |-> "no"]
  ELSE IF ev.target = e THEN [s |-> s, stop |-> "no"]
  ELSE IF ev.target \notin Elements THEN [s |-> s, stop |-> "no"]
  ELSE [s |-> Queue(s, e, ev.target), stop |-> "propagation"]

\* handleEvent(ev) that lets a descendant's event through
handleEventNoStop(s, e, ev) ==
  IF ev.type = "slotchange" THEN [s |-> Queue(s, e, Doc), stop |-> "no"]
  ELSE IF ev.target = e THEN [s |-> s, stop |-> "no"]
  ELSE IF ev.target \notin Elements THEN [s |-> s, stop |-> "no"]
  ELSE [s |-> Queue(s, e, ev.target), stop |-> "no"]

\* handleEvent(ev) that stops a descendant's event and queues nothing
handleEventNoQueue(s, e, ev) ==
  IF ev.type = "slotchange" THEN [s |-> Queue(s, e, Doc), stop |-> "no"]
  ELSE IF ev.target = e THEN [s |-> s, stop |-> "no"]
  ELSE IF ev.target \notin Elements THEN [s |-> s, stop |-> "no"]
  ELSE [s |-> s, stop |-> "immediate"]

\* handleEvent(ev) that ignores the slotchange events
handleEventNoSlotchange(s, e, ev) ==
  IF ev.type = "slotchange" THEN [s |-> s, stop |-> "no"]
  ELSE IF ev.target = e THEN [s |-> s, stop |-> "no"]
  ELSE IF ev.target \notin Elements THEN [s |-> s, stop |-> "no"]
  ELSE [s |-> Queue(s, e, ev.target), stop |-> "immediate"]

\* handleEvent(ev) without the test for the element's own event
handleEventOwn(s, e, ev) ==
  IF ev.type = "slotchange" THEN [s |-> Queue(s, e, Doc), stop |-> "no"]
  ELSE IF ev.target \notin Elements THEN [s |-> s, stop |-> "no"]
  ELSE [s |-> Queue(s, e, ev.target), stop |-> "immediate"]

\* handleEvent(ev): the state after it, and how it stopped the event:
\* "no", or "immediate" for stopImmediatePropagation()
handleEvent(s, e, ev) ==
  IF ev.type = "slotchange" THEN [s |-> Queue(s, e, Doc), stop |-> "no"]
  ELSE IF ev.target = e THEN [s |-> s, stop |-> "no"]
  ELSE IF ev.target \notin Elements THEN [s |-> s, stop |-> "no"]
  ELSE [s |-> Queue(s, e, ev.target), stop |-> "immediate"]

\* history: e received a trigger (slotchange, a descendant's notification)
Triggered(s, e) == IF watch = "trigger" THEN [s EXCEPT !.trig[e] = TRUE] ELSE s

\* history: e was mutated or connected, possibly as a child slotted in its parent
ChildTriggered(s, e) ==
  IF watch = "trigger" /\ Parent(e) \in Elements
  THEN [s EXCEPT !.trig[e] = TRUE, !.owed[Parent(e)] = @ \cup {e}]
  ELSE Triggered(s, e)

\* history: the listener added on n after its construction receives the event
Delivered(s, n, target) ==
  IF watch = "update" THEN [s EXCEPT !.delivered = @ \cup {<<n, target>>}] ELSE s

\* history: e dispatches a notification
Dispatched(s, e, by, patches) ==
  IF watch = "update"
  THEN [s EXCEPT !.log = Append(@, [el |-> e, by |-> by]),
                 !.lastEvent = [target |-> e, patches |-> patches],
                 !.delivered = {}]
  ELSE IF watch \in {"patch", "json"}
  THEN [s EXCEPT !.lastEvent = [target |-> e, patches |-> patches],
                 !.sent[e] = [json |-> IF diffAttr[e] \/ watch = "json" THEN json(e) ELSE Null,
                              diffing |-> diffAttr[e],
                              ever |-> @.ever \/ diffAttr[e]]]
  ELSE [s EXCEPT !.trig[e] = FALSE, !.owed[e] = {}]

RECURSIVE Bubble(_, _, _)
\* the event with the given target on its way up, at node n: the listener the
\* constructor added runs first, then the listeners added later
Bubble(s, n, target) ==
  IF n = None THEN s
  ELSE IF n = Doc THEN Delivered(s, Doc, target)
  ELSE LET s0 == IF target \in Elements /\ target # n THEN Triggered(s, n) ELSE s
           r == handleEvent(s0, n, [type |-> "json-change", target |-> target])
       IN IF r.stop = "immediate" THEN r.s
          ELSE IF r.stop = "propagation" THEN Delivered(r.s, n, target)
          ELSE Bubble(Delivered(r.s, n, target), Parent(n), target)

\* dispatchEvent(ev) on element from, of an event that bubbles
dispatchEvent(s, target, from) == Bubble(s, from, target)

\* detail.patches that is an array, with the operations l
List(l) == [t |-> "list", l |-> l]

\* #notify() that leaves #queued set
notifyKeepsQueued(s, e, by) ==
  LET j == json(e)
      patches == IF diffAttr[e] THEN List(diff(s.prev[e], j, <<>>, FALSE)) ELSE Undefined
      s1 == IF diffAttr[e] THEN [s EXCEPT !.prev[e] = j] ELSE s
  IN dispatchEvent(Dispatched(s1, e, by, patches), e, e)

\* #notify() that does not overwrite #prev
notifyKeepsPrev(s, e, by) ==
  LET j == json(e)
      patches == IF diffAttr[e] THEN List(diff(s.prev[e], j, <<>>, FALSE)) ELSE Undefined
      s2 == [s EXCEPT !.queued[e] = FALSE]
  IN dispatchEvent(Dispatched(s2, e, by, patches), e, e)

\* #notify() without the test for the diff attribute
notifyAlwaysDiffs(s, e, by) ==
  LET j == json(e)
      patches == List(diff(s.prev[e], j, <<>>, FALSE))
      s2 == [s EXCEPT !.prev[e] = j, !.queued[e] = FALSE]
  IN dispatchEvent(Dispatched(s2, e, by, patches), e, e)

\* #notify() that dispatches no event when diff finds no change
notifyOnChange(s, e, by) ==
  LET j == json(e)
      patches == IF diffAttr[e] THEN List(diff(s.prev[e], j, <<>>, FALSE)) ELSE Undefined
      s1 == IF diffAttr[e] THEN [s EXCEPT !.prev[e] = j] ELSE s
      s2 == [s1 EXCEPT !.queued[e] = FALSE]
  IN IF patches = List(<<>>) THEN s2 ELSE dispatchEvent(Dispatched(s2, e, by, patches), e, e)

\* #notify()
notify(s, e, by) ==
  LET j == json(e)
      patches == IF diffAttr[e] THEN List(diff(s.prev[e], j, <<>>, FALSE)) ELSE Undefined
      s1 == IF diffAttr[e] THEN [s EXCEPT !.prev[e] = j] ELSE s
      s2 == [s1 EXCEPT !.queued[e] = FALSE]
  IN dispatchEvent(Dispatched(s2, e, by, patches), e, e)

\* attributeChangedCallback() that notifies at once
attributeChangedCallbackSync(s, e) == notify(s, e, Doc)

attributeChangedCallback(s, e) == Queue(s, e, Doc)

connectedCallback(s, e) == Queue(s, e, Doc)

(***************************************************************************)
(* Actions.  A script is one synchronous call stack of DOM operations; the *)
(* microtasks run when no script is running, in the order queued.          *)
(***************************************************************************)
NoUpdate == [attrs |-> {}, other |-> FALSE]

NoEvent == [target |-> None, patches |-> Undefined]

NeverSent == [json |-> Null, diffing |-> FALSE, ever |-> FALSE]

Constructed ==
  /\ kids = [n \in Elements \cup {Doc} |-> <<>>]
  /\ attr = [e \in Elements |-> Null]
  /\ diffAttr = [e \in Elements |-> FALSE]
  /\ queued = [e \in Elements |-> FALSE]
  /\ prev = [e \in Elements |-> Null]
  /\ queue = <<>>
  /\ signalSlots = <<>>
  /\ running = FALSE
  /\ ops = 0
  /\ update = NoUpdate
  /\ log = <<>>
  /\ lastEvent = NoEvent
  /\ delivered = {}
  /\ trig = [e \in Elements |-> FALSE]
  /\ owed = [e \in Elements |-> {}]
  /\ sent = [e \in Elements |-> NeverSent]
  /\ diffEnabled = FALSE

NoInput ==
  /\ pc = "off"
  /\ prevIn = Null
  /\ nextIn = Null
  /\ sameRef = FALSE
  /\ patchesOut = <<>>
  /\ applied = Undefined
  /\ SchemaOff

Init == Constructed /\ watch = "update" /\ NoInput

\* history: the running script mutates the attribute of e, or does something else
Mutates(e) ==
  update' = IF watch # "update" THEN update
            ELSE IF e \in Elements THEN [update EXCEPT !.attrs = @ \cup {e}]
            ELSE [update EXCEPT !.other = TRUE]

Begin ==
  /\ ~ running
  /\ queue = <<>>
  /\ running' = TRUE
  /\ ops' = 0
  /\ update' = NoUpdate
  /\ log' = <<>>
  /\ lastEvent' = NoEvent
  /\ delivered' = {}
  /\ UNCHANGED <<io, asm, tags, diffEnabled, dom, queued, prev, queue, signalSlots, watch, trig, owed,
                 sent>>

End ==
  /\ running
  /\ running' = FALSE
  /\ UNCHANGED <<io, asm, tags, diffEnabled, dom, queued, prev, queue, signalSlots, ops, watch, hist>>

\* setAttribute("string", v) or removeAttribute("string") on e
SetAttribute(e, v) ==
  /\ running
  /\ ops < MaxOps
  /\ v = Null => attr[e] # Null
  /\ attr' = [attr EXCEPT ![e] = v]
  /\ Commit(attributeChangedCallback(ChildTriggered(Cur, e), e))
  /\ ops' = ops + 1
  /\ Mutates(e)
  /\ UNCHANGED <<io, asm, tags, diffEnabled, kids, diffAttr, signalSlots, running, watch>>

\* "signal a slot change" of the DOM standard
SignalSlot(s, ss, host) ==
  IF host \notin Elements \/ host \in Range(ss) THEN [s |-> s, ss |-> ss]
  ELSE [s |-> IF ss = <<>>
              THEN [s EXCEPT !.queue = Append(@, [type |-> "slotchange", el |-> Doc, by |-> Doc])]
              ELSE s,
        ss |-> Append(ss, host)]

RECURSIVE Connect(_, _)
\* connectedCallback of the elements es, in order
Connect(s, es) ==
  IF es = <<>> THEN s
  ELSE Connect(connectedCallback(ChildTriggered(s, Head(es)), Head(es)), Tail(es))

\* Home(c).appendChild(c) for a detached c
AppendChild(c) ==
  /\ running
  /\ ops < MaxOps
  /\ Parent(c) = None
  /\ kids' = [kids EXCEPT ![Home(c)] = Append(@, c)]
  /\ LET sig == SignalSlot(Cur, signalSlots, Home(c))
     IN /\ signalSlots' = sig.ss
        /\ Commit(IF IsConnected(Home(c)) THEN Connect(sig.s, Subtree(c)) ELSE sig.s)
  /\ ops' = ops + 1
  /\ Mutates(None)
  /\ UNCHANGED <<io, asm, tags, diffEnabled, attr, diffAttr, running, watch>>

\* c.remove()
RemoveChild(c) ==
  /\ running
  /\ ops < MaxOps
  /\ Parent(c) # None
  /\ kids' = [kids EXCEPT ![Parent(c)] = SelectSeq(@, LAMBDA k : k # c)]
  /\ LET sig == SignalSlot(Cur, signalSlots, Parent(c))
     IN /\ signalSlots' = sig.ss
        /\ Commit(sig.s)
  /\ ops' = ops + 1
  /\ Mutates(None)
  /\ UNCHANGED <<io, asm, tags, diffEnabled, attr, diffAttr, running, watch>>

\* a script whose one operation is that an element in e that is not a
\* JSONElement dispatches a json-change event
ForeignEvent(e) ==
  /\ ~ running
  /\ queue = <<>>
  /\ watch = "update"
  /\ ops' = 1
  /\ update' = [NoUpdate EXCEPT !.other = TRUE]
  /\ Commit(dispatchEvent([Cur EXCEPT !.log = <<>>,
                                      !.lastEvent = [target |-> Foreign, patches |-> Undefined],
                                      !.delivered = {}],
                          Foreign, e))
  /\ UNCHANGED <<io, asm, tags, diffEnabled, dom, signalSlots, running, watch>>

\* the microtask at the head of the queue is a flush
Flush ==
  /\ ~ running
  /\ queue # <<>>
  /\ Head(queue).type = "notify"
  /\ Commit(notify([Cur EXCEPT !.queue = Tail(queue)], Head(queue).el, Head(queue).by))
  /\ UNCHANGED <<io, asm, tags, diffEnabled, dom, signalSlots, running, ops, watch, update>>

RECURSIVE FireSlotchange(_, _)
\* the slotchange events of the signalled slots, each handled by its host
FireSlotchange(s, hosts) ==
  IF hosts = <<>> THEN s
  ELSE FireSlotchange(handleEvent(Triggered(s, Head(hosts)), Head(hosts),
                                  [type |-> "slotchange", target |-> Head(hosts)]).s,
                      Tail(hosts))

\* the microtask at the head of the queue fires the slotchange events
Slotchange ==
  /\ ~ running
  /\ queue # <<>>
  /\ Head(queue).type = "slotchange"
  /\ Commit(FireSlotchange([Cur EXCEPT !.queue = Tail(queue)], signalSlots))
  /\ signalSlots' = <<>>
  /\ UNCHANGED <<io, asm, tags, diffEnabled, dom, running, ops, watch, update>>

Next ==
  \/ Begin
  \/ End
  \/ \E e \in Elements, v \in AttrValues : SetAttribute(e, v)
  \/ \E c \in Elements : AppendChild(c)
  \/ \E c \in Elements : RemoveChild(c)
  \/ \E e \in Elements : ForeignEvent(e)
  \/ Flush
  \/ Slotchange

Spec == Init /\ [][Next]_vars

(***************************************************************************)
(* The same program with the trigger history recorded, under the fairness  *)
(* of the event loop: a script returns, and the microtask queue is drained.*)
(***************************************************************************)
LiveInit == Constructed /\ watch = "trigger" /\ NoInput

LiveNext ==
  \/ Begin
  \/ End
  \/ \E e \in Elements, v \in AttrValues : SetAttribute(e, v)
  \/ \E c \in Elements : AppendChild(c)
  \/ \E c \in Elements : RemoveChild(c)
  \/ Flush
  \/ Slotchange

FairSpec ==
  LiveInit /\ [][LiveNext]_vars /\ WF_vars(End) /\ WF_vars(Flush) /\ WF_vars(Slotchange)

(***************************************************************************)
(* Listeners that mutate.  A script has added to an element a json-change  *)
(* listener that sets the string attribute of the element to a value it    *)
(* does not have; the listener runs after the one the constructor added,   *)
(* while #notify dispatches the event.                                     *)
(***************************************************************************)
\* #notify() that clears #queued when dispatchEvent has returned, with the
\* listener on e setting the attribute
notifyListenerSetsClearsLast(s, e, by) ==
  LET j == json(e)
      patches == IF diffAttr[e] THEN List(diff(s.prev[e], j, <<>>, FALSE)) ELSE Undefined
      s1 == IF diffAttr[e] THEN [s EXCEPT !.prev[e] = j] ELSE s
      own == handleEvent(Dispatched(s1, e, by, patches), e,
                         [type |-> "json-change", target |-> e]).s
      set == attributeChangedCallback(ChildTriggered(Delivered(own, e, e), e), e)
  IN [Bubble(set, Parent(e), e) EXCEPT !.queued[e] = FALSE]

\* #notify() with the listener on e setting the attribute: dispatchEvent runs
\* handleEvent of e, then the listener, whose setAttribute runs
\* attributeChangedCallback, and then the listeners of the ancestors
notifyListenerSets(s, e, by) ==
  LET j == json(e)
      patches == IF diffAttr[e] THEN List(diff(s.prev[e], j, <<>>, FALSE)) ELSE Undefined
      s1 == IF diffAttr[e] THEN [s EXCEPT !.prev[e] = j] ELSE s
      s2 == [s1 EXCEPT !.queued[e] = FALSE]
      own == handleEvent(Dispatched(s2, e, by, patches), e,
                         [type |-> "json-change", target |-> e]).s
      set == attributeChangedCallback(ChildTriggered(Delivered(own, e, e), e), e)
  IN Bubble(set, Parent(e), e)

\* the microtask at the head of the queue is the flush of an element whose
\* listener sets the attribute to v
FlushListenerSets(v) ==
  /\ ~ running
  /\ queue # <<>>
  /\ Head(queue).type = "notify"
  /\ attr[Head(queue).el] # v
  /\ attr' = [attr EXCEPT ![Head(queue).el] = v]
  /\ Commit(notifyListenerSets([Cur EXCEPT !.queue = Tail(queue)], Head(queue).el,
                               Head(queue).by))
  /\ UNCHANGED <<io, asm, tags, diffEnabled, kids, diffAttr, signalSlots, running, ops, watch,
                 update>>

ListenerNext ==
  \/ LiveNext
  \/ \E v \in AttrValues : FlushListenerSets(v)

ListenerSpec ==
  LiveInit /\ [][ListenerNext]_vars /\ WF_vars(End) /\ WF_vars(Flush) /\ WF_vars(Slotchange)

(***************************************************************************)
(* Diffing elements.  The class of the elements declares the instance      *)
(* field diff = true; scripts set and remove the diff attribute of the     *)
(* first NumPatchEls elements, call enableDiff(), and set and remove the    *)
(* string attribute.                                                       *)
(***************************************************************************)
NumPatchEls == 2

PatchEls == 1..NumPatchEls

\* setAttribute("string", "x") and removeAttribute("string")
PatchValues == {Str("x"), Null}

\* the instance field diff of an element; no code of JSONElement reads it
diffField == TRUE

\* toggleAttribute("diff") on e; diff is not an observed attribute
ToggleDiff(e) ==
  /\ running
  /\ ops < MaxOps
  /\ diffAttr' = [diffAttr EXCEPT ![e] = ~ @]
  /\ ops' = ops + 1
  /\ UNCHANGED <<io, asm, tags, diffEnabled, kids, attr, queued, prev, queue, signalSlots, running,
                 watch, hist>>

\* enableDiff()
EnableDiff ==
  /\ running
  /\ ~ diffEnabled
  /\ diffEnabled' = TRUE
  /\ UNCHANGED <<io, asm, tags, dom, queued, prev, queue, signalSlots, running, ops, watch, hist>>

PatchInit == Constructed /\ watch = "patch" /\ NoInput

PatchNext ==
  \/ Begin
  \/ End
  \/ \E e \in PatchEls, v \in PatchValues : SetAttribute(e, v)
  \/ \E e \in PatchEls : ToggleDiff(e)
  \/ EnableDiff
  \/ \E c \in PatchEls : AppendChild(c)
  \/ \E c \in PatchEls : RemoveChild(c)
  \/ Flush
  \/ Slotchange

PatchSpec == PatchInit /\ [][PatchNext]_vars

\* the same elements, with the JSON of every notification recorded
JsonInit == Constructed /\ watch = "json" /\ NoInput

JsonSpec == JsonInit /\ [][PatchNext]_vars

(***************************************************************************)
(* diff on its own: a caller hands diff two JSON values and applies the    *)
(* patches it returns to the first, operation by operation, with the       *)
(* semantics RFC 6902 gives add, replace and remove.                       *)
(***************************************************************************)
MaxLen == 2

MaxNest == 1

Scalars == {Null, Num(1), Num(2)}

Keys == {<<"a">>, <<"0">>, <<"~", "/">>}

\* the orders in which an object can hold n own keys out of K: integer keys
\* come first, in ascending order, the others in insertion order
KeySeqsOf(K, n) ==
  {ks \in [1..n -> K] :
     \A i \in 1..n, j \in 1..n :
       i < j => /\ ks[i] # ks[j]
                /\ IsIndexKey(ks[j]) =>
                     (IsIndexKey(ks[i]) /\ IndexOf(ks[i]) < IndexOf(ks[j]))}

KeySeqs(n) == KeySeqsOf(Keys, n)

\* scalars, and arrays and objects of at most MaxLen scalars, the objects
\* with keys out of K
FlatOf(K) ==
  Scalars
  \cup {Arr(a) : a \in UNION {[1..n -> Scalars] : n \in 0..MaxLen}}
  \cup UNION {{Obj(ks, vs) : ks \in KeySeqsOf(K, n), vs \in [1..n -> Scalars]} : n \in 0..MaxLen}

Flat == FlatOf(Keys)

\* property names of which one is also the name of an inherited property
ProtoKeys == {<<"a">>, ConstructorKey}

\* the places a value can sit at: below at most MaxNest arrays or objects
Contexts == UNION {[1..n -> {"arr", "obj"}] : n \in 0..MaxNest}

RECURSIVE Wrap(_, _)
Wrap(v, c) ==
  IF c = <<>> THEN v
  ELSE IF Head(c) = "arr" THEN Arr(<<Wrap(v, Tail(c))>>)
  ELSE Obj(<<<<"a">>>>, <<Wrap(v, Tail(c))>>)

Error == [t |-> "error"]

RECURSIVE Unescape(_)
\* RFC 6901 section 4: ~1 is /, and ~0 is ~
Unescape(tok) ==
  IF tok = <<>> THEN <<>>
  ELSE IF Len(tok) >= 2 /\ tok[1] = "~" /\ tok[2] = "1"
  THEN <<"/">> \o Unescape(Tail(Tail(tok)))
  ELSE IF Len(tok) >= 2 /\ tok[1] = "~" /\ tok[2] = "0"
  THEN <<"~">> \o Unescape(Tail(Tail(tok)))
  ELSE <<Head(tok)>> \o Unescape(Tail(tok))

RECURSIVE Split(_, _)
\* the still escaped reference tokens of the rest of a pointer, cur being
\* the token under way
Split(rest, cur) ==
  IF rest = <<>> THEN <<cur>>
  ELSE IF Head(rest) = "/" THEN <<cur>> \o Split(Tail(rest), <<>>)
  ELSE Split(Tail(rest), Append(cur, Head(rest)))

\* the reference tokens of a JSON Pointer; "" is the whole document
Tokens(path) ==
  IF path = <<>> THEN <<>>
  ELSE LET raw == Split(Tail(path), <<>>) IN [i \in DOMAIN raw |-> Unescape(raw[i])]

HasKey(doc, k) ==
  IF doc.t = "arr" THEN IsIndexKey(k) /\ IndexOf(k) < Len(doc.a)
  ELSE doc.t = "obj" /\ k \in Range(doc.ks)

\* doc with the member k set to v; k is a member of doc
SetMember(doc, k, v) ==
  IF doc.t = "arr" THEN Arr([doc.a EXCEPT ![IndexOf(k) + 1] = v])
  ELSE Obj(doc.ks, [i \in DOMAIN doc.vs |-> IF doc.ks[i] = k THEN v ELSE doc.vs[i]])

\* RFC 6902 section 4.1
Add(doc, k, v) ==
  IF doc.t = "arr"
  THEN IF k = <<"-">> THEN Arr(Append(doc.a, v))
       ELSE IF IsIndexKey(k) /\ IndexOf(k) <= Len(doc.a)
       THEN Arr(SubSeq(doc.a, 1, IndexOf(k)) \o <<v>>
                \o SubSeq(doc.a, IndexOf(k) + 1, Len(doc.a)))
       ELSE Error
  ELSE IF doc.t = "obj"
  THEN IF HasKey(doc, k) THEN SetMember(doc, k, v)
       ELSE Obj(Append(doc.ks, k), Append(doc.vs, v))
  ELSE Error

\* RFC 6902 section 4.2
Remove(doc, k) ==
  IF ~ HasKey(doc, k) THEN Error
  ELSE IF doc.t = "arr"
  THEN Arr(SubSeq(doc.a, 1, IndexOf(k)) \o SubSeq(doc.a, IndexOf(k) + 2, Len(doc.a)))
  ELSE LET keep == {i \in DOMAIN doc.ks : doc.ks[i] # k}
           at(n) == CHOOSE i \in keep : Cardinality({j \in keep : j < i}) = n - 1
       IN Obj([n \in 1..Cardinality(keep) |-> doc.ks[at(n)]],
              [n \in 1..Cardinality(keep) |-> doc.vs[at(n)]])

\* RFC 6902 section 4.3
Replace(doc, k, v) == IF HasKey(doc, k) THEN SetMember(doc, k, v) ELSE Error

RECURSIVE ApplyAt(_, _, _)
\* doc with one operation applied at the place toks name below it; Error
\* when the operation is one the RFC makes an error
ApplyAt(doc, toks, patch) ==
  IF doc = Error THEN Error
  ELSE IF toks = <<>>
  THEN IF patch.op = "remove" THEN Error ELSE patch.value
  ELSE IF Len(toks) = 1
  THEN IF patch.op = "add" THEN Add(doc, toks[1], patch.value)
       ELSE IF patch.op = "remove" THEN Remove(doc, toks[1])
       ELSE Replace(doc, toks[1], patch.value)
  ELSE IF ~ HasKey(doc, Head(toks)) THEN Error
  ELSE LET child == ApplyAt(Get(doc, Head(toks)), Tail(toks), patch)
       IN IF child = Error THEN Error ELSE SetMember(doc, Head(toks), child)

RECURSIVE Apply(_, _)
\* RFC 6902 section 3: the operations are applied in order, each to the
\* document the one before it left; an error ends the application
Apply(doc, ps) ==
  IF ps = <<>> \/ doc = Error THEN doc
  ELSE IF Head(ps).op \notin {"add", "remove", "replace"} THEN Error
  ELSE Apply(ApplyAt(doc, Tokens(Head(ps).path), Head(ps)), Tail(ps))

RECURSIVE DeepEqual(_, _)
\* equality of JSON values: arrays member by member, objects key by key,
\* whatever the order of their keys
DeepEqual(x, y) ==
  IF x.t # y.t THEN FALSE
  ELSE IF x.t = "arr"
  THEN Len(x.a) = Len(y.a) /\ \A i \in DOMAIN x.a : DeepEqual(x.a[i], y.a[i])
  ELSE IF x.t = "obj"
  THEN /\ Range(x.ks) = Range(y.ks)
       /\ \A k \in Range(x.ks) : DeepEqual(Get(x, k), Get(y, k))
  ELSE x = y

DiffInit ==
  /\ Constructed
  /\ watch = "update"
  /\ pc = "input"
  /\ \E p \in Flat, n \in Flat, c \in Contexts :
       prevIn = Wrap(p, c) /\ nextIn = Wrap(n, c)
  /\ sameRef \in BOOLEAN
  /\ patchesOut = <<>>
  /\ applied = Undefined
  /\ SchemaOff

\* the caller calls diff(prev, next)
CallDiff ==
  /\ pc = "input"
  /\ patchesOut' = diff(prevIn, nextIn, <<>>, sameRef)
  /\ pc' = "diffed"
  /\ UNCHANGED <<prevIn, nextIn, sameRef, applied, asm, tags, dom, diffEnabled, queued, prev, queue,
                 signalSlots, running, ops, watch, hist>>

\* the caller applies the patches to prev
ApplyPatches ==
  /\ pc = "diffed"
  /\ applied' = Apply(prevIn, patchesOut)
  /\ pc' = "applied"
  /\ UNCHANGED <<prevIn, nextIn, sameRef, patchesOut, asm, tags, dom, diffEnabled, queued, prev, queue,
                 signalSlots, running, ops, watch, hist>>

DiffNext == CallDiff \/ ApplyPatches

DiffSpec == DiffInit /\ [][DiffNext]_vars

\* diff on values with a key that names an inherited property
ProtoInit ==
  /\ Constructed
  /\ watch = "update"
  /\ pc = "input"
  /\ \E p \in FlatOf(ProtoKeys), n \in FlatOf(ProtoKeys), c \in Contexts :
       prevIn = Wrap(p, c) /\ nextIn = Wrap(n, c)
  /\ sameRef \in BOOLEAN
  /\ patchesOut = <<>>
  /\ applied = Undefined
  /\ SchemaOff

ProtoSpec == ProtoInit /\ [][DiffNext]_vars

MaxKeyLen == 3

\* the characters of a key that matter to a JSON Pointer
KeyChars == {"~", "/", "0", "1"}

KeyStrings == UNION {[1..n -> KeyChars] : n \in 0..MaxKeyLen}

\* diff on two objects of one key each, the keys any strings
KeyInit ==
  /\ Constructed
  /\ watch = "update"
  /\ pc = "input"
  /\ \E k \in KeyStrings, k2 \in KeyStrings :
       prevIn = Obj(<<k2>>, <<Num(1)>>) /\ nextIn = Obj(<<k>>, <<Num(1)>>)
  /\ sameRef = FALSE
  /\ patchesOut = <<>>
  /\ applied = Undefined
  /\ SchemaOff

KeySpec == KeyInit /\ [][DiffNext]_vars

(***************************************************************************)
(* Schema inputs, their compilation to value getters, and the json         *)
(* accessor of an element of any schema.                                   *)
(*                                                                         *)
(* A function object is a record of its name, its length (the number of    *)
(* its declared parameters), whether its prototype is an instance of       *)
(* JSONElement, and what its closure holds.                                *)
(***************************************************************************)
Fn(name, length, derived, data) ==
  [t |-> "function", name |-> name, length |-> length, derived |-> derived, data |-> data]

\* the globals Boolean, Number, String, Object and Array
BooleanFn == Fn("Boolean", 1, FALSE, Undefined)

NumberFn == Fn("Number", 1, FALSE, Undefined)

StringFn == Fn("String", 1, FALSE, Undefined)

ObjectFn == Fn("Object", 1, FALSE, Undefined)

ArrayFn == Fn("Array", 1, FALSE, Undefined)

\* the class JSONElement itself
JSONElementClass == Fn("JSONElement", 0, FALSE, Undefined)

\* class TestSub extends JSONElement
TestSub == Fn("TestSub", 0, TRUE, Undefined)

\* a custom schema function of n declared parameters; it returns what it was
\* called with, as [value, els.map(el => el.json)]
Custom(n) == Fn("custom", n, FALSE, Undefined)

\* the number NaN
NaN == [t |-> "nan"]

\* what a call leaves when it throws instead of returning
Throw(message) == [t |-> "throw", message |-> message]

InvalidSchemaInput == Throw("Invalid schema input")

\* typeof x
Typeof(x) ==
  CASE x.t = "function" -> "function"
    [] x.t = "bool" -> "boolean"
    [] x.t \in {"num", "nan"} -> "number"
    [] x.t = "str" -> "string"
    [] x.t = "undef" -> "undefined"
    [] OTHER -> "object"

LITERAL_TYPES == {"boolean", "number", "string", "null"}

isLiteralSchema(schema) == Typeof(schema) \in LITERAL_TYPES

\* Array.isArray(schema) || schema === Array
isArraySchema(schema) == schema.t = "arr" \/ schema = ArrayFn

\* without the test of the prototype: schema === Object only
isObjectSchemaObjectOnly(schema) == schema = ObjectFn

\* schema?.prototype instanceof JSONElement || schema === Object
isObjectSchema(schema) == (schema.t = "function" /\ schema.derived) \/ schema = ObjectFn

\* every function, whatever its length
isCompositeSchemaAnyLength(schema) ==
  isObjectSchema(schema) \/ isArraySchema(schema) \/ Typeof(schema) = "function"

isCompositeSchema(schema) ==
  \/ isObjectSchema(schema)
  \/ isArraySchema(schema)
  \/ (Typeof(schema) = "function" /\ schema.length >= 2)

\* the value getters string, boolean, number, object and array as function objects
stringGetter == Fn("string", 1, FALSE, Undefined)

booleanGetter == Fn("boolean", 1, FALSE, Undefined)

numberGetter == Fn("number", 1, FALSE, Undefined)

\* an object getter that declares the attribute value only: _ => undefined
objectGetterOneParameter == Fn("object", 1, FALSE, Undefined)

objectGetter == Fn("object", 2, FALSE, Undefined)

arrayGetter == Fn("array", 2, FALSE, Undefined)

\* () => schema
literalGetter(schema) == Fn("literal", 0, FALSE, [value |-> schema])

\* !!value: true for a non-empty string only
booleanTruthy(value) == Bool(value # Null /\ value # Str(""))

\* value !== null
boolean(value) == Bool(value # Null)

\* Number(s) of the attribute strings of the model
ToNumber(s) == IF s = "" THEN Num(0) ELSE IF s = "1" THEN Num(1) ELSE NaN

number(value) ==
  IF value = Null THEN Undefined
  ELSE IF ToNumber(value.s) = NaN THEN Undefined
  ELSE ToNumber(value.s)

\* compile that takes an unrecognized input for a literal
compileNoThrow(schema) ==
  IF schema = BooleanFn THEN booleanGetter
  ELSE IF schema = NumberFn THEN numberGetter
  ELSE IF schema = StringFn THEN stringGetter
  ELSE IF isObjectSchema(schema) THEN objectGetter
  ELSE IF isArraySchema(schema) THEN arrayGetter
  ELSE IF Typeof(schema) = "function" THEN schema
  ELSE literalGetter(schema)

compile(schema) ==
  IF isLiteralSchema(schema) THEN literalGetter(schema)
  ELSE IF schema = BooleanFn THEN booleanGetter
  ELSE IF schema = NumberFn THEN numberGetter
  ELSE IF schema = StringFn THEN stringGetter
  ELSE IF isObjectSchema(schema) THEN objectGetter
  ELSE IF isArraySchema(schema) THEN arrayGetter
  ELSE IF Typeof(schema) = "function" THEN schema
  ELSE InvalidSchemaInput

\* Enum(...schemata): the alternatives are compiled at the call
Enum(schemata) ==
  LET fns == [i \in DOMAIN schemata |-> compile(schemata[i])]
  IN IF \E i \in DOMAIN fns : fns[i] = InvalidSchemaInput
     THEN InvalidSchemaInput
     ELSE Fn("Enum", 2, FALSE, [fns |-> fns])

\* obj[key] = value that puts every new key last
AssignLast(obj, key, value) ==
  IF \E i \in DOMAIN obj.ks : obj.ks[i] = key
  THEN Obj(obj.ks, [obj.vs EXCEPT ![CHOOSE i \in DOMAIN obj.ks : obj.ks[i] = key] = value])
  ELSE Obj(Append(obj.ks, key), Append(obj.vs, value))

\* obj[key] = value on a plain object, whose own keys come in property order:
\* the array indices in ascending order, then the other keys in the order of
\* their creation
Assign(obj, key, value) ==
  IF \E i \in DOMAIN obj.ks : obj.ks[i] = key
  THEN Obj(obj.ks, [obj.vs EXCEPT ![CHOOSE i \in DOMAIN obj.ks : obj.ks[i] = key] = value])
  ELSE LET before ==
             IF IsIndexKey(key)
             THEN Cardinality({i \in DOMAIN obj.ks :
                                 IsIndexKey(obj.ks[i]) /\ IndexOf(obj.ks[i]) < IndexOf(key)})
             ELSE Len(obj.ks)
       IN Obj(SubSeq(obj.ks, 1, before) \o <<key>> \o SubSeq(obj.ks, before + 1, Len(obj.ks)),
              SubSeq(obj.vs, 1, before) \o <<value>> \o SubSeq(obj.vs, before + 1, Len(obj.vs)))

RECURSIVE ObjectLiteral(_)
\* { k1: v1, ..., kn: vn }
ObjectLiteral(entries) ==
  IF entries = <<>> THEN Obj(<<>>, <<>>)
  ELSE LET last == entries[Len(entries)]
       IN Assign(ObjectLiteral(SubSeq(entries, 1, Len(entries) - 1)), last.key, last.value)

(***************************************************************************)
(* An element is a record: inst (it is an instance of JSONElement), slot   *)
(* (its slot attribute), compiled (#schema), slots (the names of the slot  *)
(* elements of its shadow root, in tree order), attrs (its attributes, in  *)
(* the order of the markup), light (its children, in document order),      *)
(* queued (#queued) and snapshot (#prev).                                  *)
(***************************************************************************)
DiffName == <<"d", "i", "f", "f">>

hasAttribute(el, name) == \E i \in DOMAIN el.attrs : el.attrs[i].name = name

getAttribute(el, name) ==
  IF hasAttribute(el, name)
  THEN el.attrs[CHOOSE i \in DOMAIN el.attrs : el.attrs[i].name = name].value
  ELSE Null

\* slot.assignedElements(): the children whose slot attribute names the slot
assignedElements(el, slotName) == SelectSeq(el.light, LAMBDA c : c.slot = slotName)

\* #slotted(name) that keeps every assigned element
slottedElsUnfiltered(el, name) ==
  LET found == IF name # <<>> THEN SelectSeq(el.slots, LAMBDA s : s = name) ELSE el.slots
  IN IF found = <<>> THEN <<>> ELSE assignedElements(el, Head(found))

\* #slotted(name): querySelector finds the first slot that matches
slottedEls(el, name) ==
  LET found == IF name # <<>> THEN SelectSeq(el.slots, LAMBDA s : s = name) ELSE el.slots
      els == IF found = <<>> THEN <<>> ELSE assignedElements(el, Head(found))
  IN SelectSeq(els, LAMBDA c : c.inst)

RECURSIVE getJson(_)
RECURSIVE Assemble(_, _, _)
RECURSIVE Call(_, _, _)
RECURSIVE EnumApply(_, _, _)
RECURSIVE EnumApplyLast(_, _, _)
RECURSIVE EnumApplyTruthy(_, _, _)

\* el.json: of an element that is no JSONElement, undefined
jsonOf(el) == IF el.inst THEN getJson(el) ELSE Undefined

\* (_, [el]) => el?.json
object(value, els) == IF els = <<>> THEN Undefined ELSE jsonOf(els[1])

\* els.map(el => el.json) of the first element only
arrayElsFirst(els) == Arr([i \in DOMAIN els \cap {1} |-> jsonOf(els[i])])

\* els.map(el => el.json)
arrayEls(els) == Arr([i \in DOMAIN els |-> jsonOf(els[i])])

\* the getter of Enum that returns the last result that is not undefined
EnumApplyLast(fns, value, els) ==
  IF fns = <<>> THEN Undefined
  ELSE LET result == Call(fns[Len(fns)], value, els)
       IN IF result # Undefined THEN result
          ELSE EnumApplyLast(SubSeq(fns, 1, Len(fns) - 1), value, els)

\* ToBoolean(x)
Truthy(x) == x \notin {Undefined, Null, Bool(FALSE), Num(0), Str(""), NaN}

\* the getter of Enum that returns the first result that is truthy:
\* if (result) return result
EnumApplyTruthy(fns, value, els) ==
  IF fns = <<>> THEN Undefined
  ELSE LET result == Call(Head(fns), value, els)
       IN IF Truthy(result) THEN result ELSE EnumApplyTruthy(Tail(fns), value, els)

\* the getter Enum returns: for (const fn of fns) ...
EnumApply(fns, value, els) ==
  IF fns = <<>> THEN Undefined
  ELSE LET result == Call(Head(fns), value, els)
       IN IF result # Undefined THEN result ELSE EnumApply(Tail(fns), value, els)

\* fn(value, els)
Call(fn, value, els) ==
  CASE fn.name = "literal" -> fn.data.value
    [] fn.name = "boolean" -> boolean(value)
    [] fn.name = "number" -> number(value)
    [] fn.name = "string" -> string(value)
    [] fn.name = "object" -> object(value, els)
    [] fn.name = "array" -> arrayEls(els)
    [] fn.name = "Enum" -> EnumApply(fn.data.fns, value, els)
    [] fn.name = "custom" -> Arr(<<value, arrayEls(els)>>)
    [] OTHER -> Throw("TypeError")   \* a class constructor called without new

\* the loop of get json from the i-th entry of #schema on
Assemble(el, i, acc) ==
  IF i > Len(el.compiled.ks) THEN acc
  ELSE LET key == el.compiled.ks[i]
           fn == el.compiled.vs[i]
           els == IF isCompositeSchema(fn) THEN slottedEls(el, key) ELSE <<>>
           value == Call(fn, getAttribute(el, key), els)
       IN IF value.t = "throw" THEN value
          ELSE Assemble(el, i + 1, IF value # Undefined THEN Assign(acc, key, value) ELSE acc)

\* get json
getJson(el) == Assemble(el, 1, Obj(<<>>, <<>>))

\* a constructor that appends a slot for every key
SlotNamesAll(ks, vs) == ks

RECURSIVE SlotNames(_, _)
\* the slots the constructor appends to the shadow root
SlotNames(ks, vs) ==
  IF ks = <<>> THEN <<>>
  ELSE (IF isCompositeSchema(Head(vs)) THEN <<Head(ks)>> ELSE <<>>)
         \o SlotNames(Tail(ks), Tail(vs))

\* new C() of a class C with the static schema: the instance, or what it throws
constructor(schema) ==
  LET fns == [i \in DOMAIN schema.vs |-> compile(schema.vs[i])]
  IN IF \E i \in DOMAIN fns : fns[i] = InvalidSchemaInput
     THEN InvalidSchemaInput
     ELSE [inst |-> TRUE, slot |-> <<>>, compiled |-> Obj(schema.ks, fns),
           slots |-> SlotNames(schema.ks, schema.vs), attrs |-> <<>>, light |-> <<>>,
           queued |-> FALSE, snapshot |-> Null]

\* Object.keys(this.schema)
observedAttributes(schema) == Range(schema.ks)

\* #queue(); the microtask is pending exactly while #queued is true
queueHost(el) == [el EXCEPT !.queued = TRUE]

\* #notify(); the element is the target of the event it dispatches, so that
\* its own handleEvent lets the event through
notifyHost(el) ==
  IF hasAttribute(el, DiffName)
  THEN [el EXCEPT !.snapshot = getJson(el), !.queued = FALSE]
  ELSE [el EXCEPT !.queued = FALSE]

(***************************************************************************)
(* One class and one instance of it.                                       *)
(***************************************************************************)
\* the most alternatives of an Enum
MaxAlts == 2

\* the most children of the host
MaxLight == 2

\* the most keys of a schema
MaxEntries == 2

SubjectKey == <<"k">>

LeafKey == <<"o", "n">>

\* class TestLeaf extends JSONElement { static schema = { on: Boolean } }
LeafSchema == ObjectLiteral(<<[key |-> LeafKey, value |-> BooleanFn]>>)

\* a child that is a TestLeaf
Leaf(slot, attrs) == [constructor(LeafSchema) EXCEPT !.slot = slot, !.attrs = attrs]

\* a child that is no JSONElement
Div(slot) ==
  [inst |-> FALSE, slot |-> slot, compiled |-> Obj(<<>>, <<>>), slots |-> <<>>,
   attrs |-> <<>>, light |-> <<>>, queued |-> FALSE, snapshot |-> Null]

\* the children a script appends: a TestLeaf with the slot attribute of a key
\* or without one, or another element with the slot attribute of a key
ChildrenOf(slotNames) ==
  {Leaf(s, a) : s \in slotNames \cup {<<>>},
                a \in {<<>>, <<[name |-> LeafKey, value |-> Str("")]>>}}
    \cup {Div(s) : s \in slotNames}

\* the strings an attribute is set to
AttrStrings == {"", "1", "x"}

Literals == {Bool(TRUE), Num(1), Str("lit"), Null}

Markers == {BooleanFn, NumberFn, StringFn, ObjectFn, ArrayFn, TestSub, Arr(<<TestSub>>)}

Customs == {Custom(1), Custom(2)}

\* the class JSONElement, and a plain object
Others == {JSONElementClass, Obj(<<>>, <<>>)}

Inputs == Literals \cup Markers \cup Customs \cup Others

\* the arguments of the calls of Enum
EnumAlts == {StringFn, ObjectFn, Str("lit"), Null}

\* the expression Enum(a1, ..., an)
EnumCall(args) == [t |-> "call", args |-> args]

EnumCalls == {EnumCall(a) : a \in UNION {[1..n -> EnumAlts] : n \in 0..MaxAlts}}

\* the value of an expression of the class body
Eval(expr) == IF expr.t = "call" THEN Enum(expr.args) ELSE expr

TheHost == hostEl[1]

Authored(entries) ==
  /\ Constructed
  /\ watch = "update"
  /\ pc = "off"
  /\ prevIn = Null
  /\ nextIn = Null
  /\ sameRef = FALSE
  /\ patchesOut = <<>>
  /\ applied = Undefined
  /\ authored = entries
  /\ cls = "authored"
  /\ classSchema = Obj(<<>>, <<>>)
  /\ registry = "none"
  /\ hostEl = <<>>
  /\ thrown = NoError
  /\ signal = FALSE
  /\ reads = <<>>
  /\ NoTags

protocol ==
  <<dom, diffEnabled, queued, prev, queue, signalSlots, running, ops, watch, hist, io, tags>>

\* the class body is evaluated: the static schema is an object literal whose
\* values are evaluated in the order written
DefineClass ==
  /\ cls = "authored"
  /\ LET values == [i \in DOMAIN authored |-> Eval(authored[i].value)]
     IN IF \E i \in DOMAIN values : values[i] = InvalidSchemaInput
        THEN /\ cls' = "failed"
             /\ thrown' = [message |-> InvalidSchemaInput.message, at |-> "define"]
             /\ UNCHANGED classSchema
        ELSE /\ cls' = "defined"
             /\ classSchema' =
                  ObjectLiteral([i \in DOMAIN authored |->
                                   [key |-> authored[i].key, value |-> values[i]]])
             /\ UNCHANGED thrown
  /\ UNCHANGED <<authored, registry, hostEl, signal, reads, protocol>>

\* C.register()
Register ==
  /\ cls = "defined"
  /\ registry' = IF registry = "this" THEN registry ELSE "this"
  /\ UNCHANGED <<authored, cls, classSchema, hostEl, thrown, signal, reads, protocol>>

\* document.createElement(tag)
Construct ==
  /\ registry = "this"
  /\ hostEl = <<>>
  /\ LET made == constructor(classSchema)
     IN IF made = InvalidSchemaInput
        THEN /\ thrown' = [message |-> InvalidSchemaInput.message, at |-> "construct"]
             /\ UNCHANGED hostEl
        ELSE /\ hostEl' = <<made>>
             /\ UNCHANGED thrown
  /\ UNCHANGED <<authored, cls, classSchema, registry, signal, reads, protocol>>

\* the attribute is set, by setAttribute or by the parser; every schema key is
\* an observed attribute, and attributeChangedCallback runs
HostSetAttribute(name, s) ==
  /\ hostEl # <<>>
  /\ name \in observedAttributes(classSchema)
  /\ LET el == TheHost
         set == IF hasAttribute(el, name)
                THEN [el EXCEPT !.attrs[CHOOSE i \in DOMAIN el.attrs : el.attrs[i].name = name]
                                  .value = Str(s)]
                ELSE [el EXCEPT !.attrs = Append(@, [name |-> name, value |-> Str(s)])]
     IN hostEl' = <<queueHost(set)>>
  /\ reads' = <<>>
  /\ UNCHANGED <<authored, cls, classSchema, registry, thrown, signal, protocol>>

\* removeAttribute(name) of an attribute the host has
HostRemoveAttribute(name) ==
  /\ hostEl # <<>>
  /\ name \in observedAttributes(classSchema)
  /\ hasAttribute(TheHost, name)
  /\ LET el == TheHost
         removed == [el EXCEPT !.attrs = SelectSeq(@, LAMBDA a : a.name # name)]
     IN hostEl' = <<queueHost(removed)>>
  /\ reads' = <<>>
  /\ UNCHANGED <<authored, cls, classSchema, registry, thrown, signal, protocol>>

\* host.append(c); the slot c is assigned to is signalled
HostAppend(c) ==
  /\ hostEl # <<>>
  /\ Len(TheHost.light) < MaxLight
  /\ hostEl' = <<[TheHost EXCEPT !.light = Append(@, c)]>>
  /\ signal' = (signal \/ c.slot \in Range(TheHost.slots))
  /\ reads' = <<>>
  /\ UNCHANGED <<authored, cls, classSchema, registry, thrown, protocol>>

\* the i-th child of the host is removed; the slot it was assigned to is signalled
HostRemove(i) ==
  /\ hostEl # <<>>
  /\ i \in DOMAIN TheHost.light
  /\ hostEl' = <<[TheHost EXCEPT !.light = SubSeq(@, 1, i - 1) \o SubSeq(@, i + 1, Len(@))]>>
  /\ signal' = (signal \/ TheHost.light[i].slot \in Range(TheHost.slots))
  /\ reads' = <<>>
  /\ UNCHANGED <<authored, cls, classSchema, registry, thrown, protocol>>

\* the slotchange event is fired; handleEvent queues
HostSlotchange ==
  /\ signal
  /\ signal' = FALSE
  /\ hostEl' = <<queueHost(TheHost)>>
  /\ UNCHANGED <<authored, cls, classSchema, registry, thrown, reads, protocol>>

\* the microtask of #queue
HostNotify ==
  /\ hostEl # <<>>
  /\ TheHost.queued
  /\ hostEl' = <<notifyHost(TheHost)>>
  /\ UNCHANGED <<authored, cls, classSchema, registry, thrown, signal, reads, protocol>>

\* a read of host.json that queues a notification
HostReadJsonQueues ==
  /\ hostEl # <<>>
  /\ reads' = IF Len(reads) < 2 THEN Append(reads, getJson(TheHost))
              ELSE <<reads[2], getJson(TheHost)>>
  /\ hostEl' = <<queueHost(TheHost)>>
  /\ UNCHANGED <<authored, cls, classSchema, registry, thrown, signal, protocol>>

\* a script reads host.json
HostReadJson ==
  /\ hostEl # <<>>
  /\ reads' = IF Len(reads) < 2 THEN Append(reads, getJson(TheHost))
              ELSE <<reads[2], getJson(TheHost)>>
  /\ UNCHANGED <<authored, cls, classSchema, registry, hostEl, thrown, signal, protocol>>

\* a class of one key, of any schema input
SchemaInit ==
  \E v \in Inputs \cup EnumCalls : Authored(<<[key |-> SubjectKey, value |-> v]>>)

SchemaNext ==
  \/ DefineClass
  \/ Register
  \/ Construct
  \/ \E s \in AttrStrings : HostSetAttribute(SubjectKey, s)
  \/ HostRemoveAttribute(SubjectKey)
  \/ \E c \in ChildrenOf({SubjectKey}) : HostAppend(c)
  \/ \E i \in 1..MaxLight : HostRemove(i)
  \/ HostSlotchange
  \/ HostNotify
  \/ HostReadJson

SchemaSpec == SchemaInit /\ [][SchemaNext]_vars

\* custom functions of no parameter and of three
CustomsAnyArity == Customs \cup {Custom(0), Custom(3)}

\* a class of one key, of any schema input, the custom functions of any arity
SlotInit ==
  \E v \in Inputs \cup CustomsAnyArity \cup EnumCalls :
    Authored(<<[key |-> SubjectKey, value |-> v]>>)

SlotSpec == SlotInit /\ [][SchemaNext]_vars

\* alternatives of which some yield false and 0
FalsyAlts == {BooleanFn, NumberFn, ObjectFn, Bool(FALSE)}

FalsyCalls == {EnumCall(a) : a \in UNION {[1..n -> FalsyAlts] : n \in 0..MaxAlts}}

\* a class of one key, declared with an enumeration of such alternatives
FalsyInit == \E v \in FalsyCalls : Authored(<<[key |-> SubjectKey, value |-> v]>>)

FalsySpec == FalsyInit /\ [][SchemaNext]_vars

\* the keys of the classes of several keys: two are array indices
OrderKeys == {<<"a">>, <<"b">>, <<"0">>, <<"1">>}

\* the schema inputs of the classes of several keys
ScalarInputs == {StringFn, BooleanFn, Str("lit")}

\* the strings an attribute of such a class is set to
OrderStrings == {"", "x"}

\* the entries of a class body: distinct keys, in any order
EntriesOf(K, I, n) ==
  {e \in [1..n -> [key : K, value : I]] : \A i, j \in 1..n : e[i].key = e[j].key => i = j}

\* a class of several keys, of scalar schema inputs
OrderInit ==
  \E n \in 0..MaxEntries : \E e \in EntriesOf(OrderKeys, ScalarInputs, n) : Authored(e)

OrderNext ==
  \/ DefineClass
  \/ Register
  \/ Construct
  \/ \E k \in OrderKeys, s \in OrderStrings : HostSetAttribute(k, s)
  \/ \E k \in OrderKeys : HostRemoveAttribute(k)
  \/ HostNotify
  \/ HostReadJson

OrderSpec == OrderInit /\ [][OrderNext]_vars

(***************************************************************************)
(* Registration.  Scripts call register on JSONElement and on the classes  *)
(* that extend it, with a tag name or without one.                         *)
(***************************************************************************)
\* customElements.define(t, c) of the platform, for a valid name t: a name
\* or a constructor that the registry already holds is not supported
define(defs, t, c) ==
  IF defs[t] # NoClass \/ \E u \in Tags : defs[u] = c
  THEN [definitions |-> defs, threw |-> "NotSupportedError", warned |-> FALSE]
  ELSE [definitions |-> [defs EXCEPT ![t] = c], threw |-> "none", warned |-> FALSE]

\* register(tag) that defines the class over another class
registerOverwrites(defs, c, t) ==
  LET ce == defs[t]
  IN IF ce = c THEN [definitions |-> defs, threw |-> "none", warned |-> FALSE]
     ELSE [definitions |-> [defs EXCEPT ![t] = c], threw |-> "none", warned |-> FALSE]

\* register(tag) called on class c
register(defs, c, t) ==
  LET ce == defs[t]
  IN IF ce = c THEN [definitions |-> defs, threw |-> "none", warned |-> FALSE]
     ELSE IF ce # NoClass THEN [definitions |-> defs, threw |-> "none", warned |-> TRUE]
     ELSE define(defs, t, c)

\* c.register(t); c.register() is the call with t = c.tag
RegisterAs(c, t) ==
  /\ LET r == register(definitions, c, t)
     IN /\ definitions' = r.definitions
        /\ lastCall' = [class |-> c, tag |-> t, threw |-> r.threw, warned |-> r.warned]
  /\ firstCall' = IF firstCall[t] = NoClass THEN [firstCall EXCEPT ![t] = c] ELSE firstCall
  /\ UNCHANGED <<asm, dom, diffEnabled, queued, prev, queue, signalSlots, running, ops, watch,
                 hist, io>>

RegistryInit == Constructed /\ watch = "update" /\ NoInput

RegistryNext ==
  \/ \E c \in Classes : RegisterAs(c, tag(c))
  \/ \E c \in Classes, t \in Tags : RegisterAs(c, t)

RegistrySpec == RegistryInit /\ [][RegistryNext]_vars

(***************************************************************************)
(* Properties of the batching and notification protocol.                   *)
(***************************************************************************)
\* no script is running and no microtask is queued
Quiescent == ~ running /\ queue = <<>>

\* the notifications e dispatched since the current script began
Count(e) == Cardinality({i \in DOMAIN log : log[i].el = e})

Depth(e) == Len(Ancestors(e))

\* the topmost JSONElement of the tree of e
Root(e) == IF Ancestors(e) = <<>> THEN e ELSE Ancestors(e)[Depth(e)]

\* the running script has only mutated attributes, of the elements es
OnlyMutated(es) == ~ update.other /\ update.attrs = es

IsPrefix(p, q) == Len(p) <= Len(q) /\ p = SubSeq(q, 1, Len(p))

\* C1 (Batching): a script that makes N >= 1 attribute mutations on one
\* element, and nothing else, makes that element dispatch exactly one
\* notification: none while the script runs, at most one while the microtasks
\* run, one when they have run.
C1_Batching ==
  \A e \in Elements :
    (ops >= 1 /\ OnlyMutated({e})) =>
      /\ running => Count(e) = 0
      /\ Count(e) <= 1
      /\ Quiescent => Count(e) = 1

C1_Witness ==
  \E e \in Elements : Quiescent /\ ops = MaxOps /\ OnlyMutated({e}) /\ Count(e) = 1

\* C2 (Asynchronous dispatch): a notification is dispatched only by a step
\* that takes a flush task from the head of the microtask queue while no
\* script is running; no step of a script (no trigger callback) dispatches.
C2_Asynchronous ==
  [][(log' # log /\ log' # <<>>) =>
       /\ ~ running
       /\ queue # <<>>
       /\ Head(queue).type = "notify"
       /\ log' = Append(log, [el |-> Head(queue).el, by |-> Head(queue).by])
       /\ IsPrefix(Tail(queue), queue')]_vars

C2_Witness ==
  /\ log # <<>>
  /\ update.attrs # {}
  /\ update.other
  /\ \E e \in Elements : queued[e]

\* C3 (Every trigger is answered), under the fairness of the event loop: the
\* microtask queue is drained again and again, and whenever it is, every
\* element that received a trigger has dispatched a notification since.
C3_Answered ==
  /\ []<>Quiescent
  /\ [](Quiescent => \A e \in Elements : ~ trig[e])

\* a removed element whose flush is scheduled and not yet run
C3_Witness ==
  \E e \in Elements :
    /\ ~ running
    /\ trig[e] /\ queued[e]
    /\ Parent(e) = None
    /\ Home(e) \in Range(signalSlots)

\* C4 (Child-to-parent propagation), under the fairness of the event loop: a
\* parent whose slotted child was mutated or connected dispatches a
\* notification of its own afterwards, and when it does its json holds the
\* current json of every child it still has.
C4_Propagation ==
  /\ []<>Quiescent
  /\ [](Quiescent => \A p \in Elements : owed[p] = {})
  /\ [][\A p \in Elements :
          (owed[p] # {} /\ owed'[p] = {}) =>
            /\ Get(json(p), ArrayKey)' = Arr([i \in DOMAIN kids[p] |-> json(kids[p][i])])'
            /\ ~ queued'[p]]_vars

C4_Witness ==
  \E p \in Elements : \E c \in owed[p] :
    /\ ~ running
    /\ queued[c] /\ ~ queued[p]
    /\ c \in Range(kids[p])
    /\ attr[c] = Str("x")

C6_Suppression ==
  /\ \A d \in delivered :
       d[2] \in Elements =>
         /\ d[1] \in Elements => d[1] = d[2]
         /\ d[1] = Doc => Ancestors(d[2]) = <<>>
  /\ (lastEvent.target \in Elements /\ Parent(lastEvent.target) \in Elements) =>
       /\ queued[Parent(lastEvent.target)]
       /\ \E i \in DOMAIN queue :
            queue[i].type = "notify" /\ queue[i].el = Parent(lastEvent.target)

C6_Witness ==
  \E t \in Elements :
    /\ lastEvent.target = t
    /\ Depth(t) = 2
    /\ IsConnected(t)
    /\ delivered = {<<t, t>>}
    /\ queued[Parent(t)]

\* C7 as claimed: no element's flush runs while a descendant JSONElement has
\* a scheduled flush (the last entry of log is the flush that just ran).
C7_Original ==
  log # <<>> =>
    \A d \in Elements : log[Len(log)].el \in Range(Ancestors(d)) => ~ queued[d]

\* C7 (Bottom-up settling), amended: the microtask queue is first in, first
\* out, and a flush that a child's notification caused is the flush of the
\* child's parent, is scheduled after the child's flush has begun and runs
\* after it; a flush caused by the element's own trigger may run while a
\* descendant has a scheduled flush.
C7_FlushOrder ==
  /\ [][queue' # queue =>
          \/ IsPrefix(queue, queue')
          \/ /\ ~ running
             /\ queue # <<>>
             /\ IsPrefix(Tail(queue), queue')
             /\ Head(queue).type = "notify" =>
                  log' = Append(log, [el |-> Head(queue).el, by |-> Head(queue).by])]_vars
  /\ [](\A i \in DOMAIN queue :
          queue[i].by \in Elements =>
            /\ queue[i].el = Parent(queue[i].by)
            /\ \E j \in DOMAIN log : log[j].el = queue[i].by)
  /\ [](\A j \in DOMAIN log :
          log[j].by \in Elements => \E k \in 1..(j - 1) : log[k].el = log[j].by)

\* a flush has run while a descendant's flush was scheduled, and a flush
\* caused by a child's notification is scheduled
C7_Witness ==
  /\ log # <<>>
  /\ \E d \in Elements : log[Len(log)].el \in Range(Ancestors(d)) /\ queued[d]
  /\ \E i \in DOMAIN queue : queue[i].by \in Elements

\* the flushes that one attribute mutation of x causes: x, then its
\* ancestors from the nearest to the root, each caused by the element below
PathLog(x) ==
  <<[el |-> x, by |-> Doc]>> \o
  [i \in 1..Depth(x) |-> [el |-> Ancestors(x)[i],
                          by |-> IF i = 1 THEN x ELSE Ancestors(x)[i - 1]]]

\* the flushes scheduled and not yet run
Pending == [i \in DOMAIN queue |-> [el |-> queue[i].el, by |-> queue[i].by]]

\* C8 (One level per turn): after a script that makes one attribute mutation,
\* on x, and nothing else, the flushes run and the flush scheduled are at
\* every moment the beginning of PathLog(x), one flush is scheduled at a time,
\* and when the microtasks have run the flushes are exactly PathLog(x).
C8_OneLevelPerTurn ==
  \A x \in Elements :
    (ops = 1 /\ OnlyMutated({x})) =>
      /\ IsPrefix(log \o Pending, PathLog(x))
      /\ \A i \in DOMAIN queue : queue[i].type = "notify"
      /\ Quiescent => log = PathLog(x)
      /\ ~ Quiescent => Len(queue) = 1

C8_Witness ==
  \E x \in Elements :
    /\ Quiescent
    /\ ops = 1
    /\ OnlyMutated({x})
    /\ Depth(x) = 2
    /\ Len(log) = 3

(***************************************************************************)
(* Properties of diff.                                                     *)
(***************************************************************************)
\* C9 (Diff round-trip): applying the operations of diff(prev, next) to prev,
\* in order and with the semantics of RFC 6902, succeeds and yields a value
\* deep-equal to next.
C9_RoundTrip ==
  pc = "applied" => (applied # Error /\ DeepEqual(applied, nextIn))

\* C10 (Diff identity): diff(x, y) is the empty list when x and y are the
\* same reference or deep-equal, at the root and at any depth.
C10_DiffIdentity ==
  (/\ pc \in {"diffed", "applied"}
   /\ \/ sameRef /\ prevIn = nextIn
      \/ DeepEqual(prevIn, nextIn))
  => patchesOut = <<>>

\* diff has returned the empty list for two distinct references that are
\* deep-equal: an array of one object, whose keys come in another order
C10_Witness ==
  /\ pc = "diffed"
  /\ ~ sameRef
  /\ prevIn.t = "arr" /\ Len(prevIn.a) = 1 /\ prevIn.a[1].t = "obj"
  /\ Len(prevIn.a[1].ks) = MaxLen
  /\ prevIn # nextIn
  /\ DeepEqual(prevIn, nextIn)
  /\ patchesOut = <<>>

IsContainer(x) == x.t \in {"arr", "obj"}

RECURSIVE Concat(_)
Concat(ss) == IF ss = <<>> THEN <<>> ELSE Head(ss) \o Concat(Tail(ss))

RECURSIVE RefDiff(_, _, _)
\* the diff of two containers as the reference algorithm gives it: per key of
\* next, in next's order, add if previous has no such key, else the diff below if
\* both values are containers, else replace if the values differ; then, per
\* key of previous that next does not have, remove
RefDiff(previous, next, pathPrefix) ==
  LET nk == keys(next)
      pk == keys(previous)
      at(k) == append(pathPrefix, k)
      forKey(k) ==
        IF ~ HasKey(previous, k)
        THEN <<[op |-> "add", path |-> at(k), value |-> Get(next, k)]>>
        ELSE IF IsContainer(Get(previous, k)) /\ IsContainer(Get(next, k))
        THEN RefDiff(Get(previous, k), Get(next, k), at(k))
        ELSE IF ~ DeepEqual(Get(previous, k), Get(next, k))
        THEN <<[op |-> "replace", path |-> at(k), value |-> Get(next, k)]>>
        ELSE <<>>
      gone(k) ==
        IF ~ HasKey(next, k) THEN <<[op |-> "remove", path |-> at(k)]>> ELSE <<>>
  IN Concat([i \in DOMAIN nk |-> forKey(nk[i])]) \o Concat([i \in DOMAIN pk |-> gone(pk[i])])

\* C11 (Diff of two containers): diff(prev, next) of two containers that are
\* not one reference is the list the reference algorithm gives: per key of
\* next an add, the recursive diff or a replace, and then the removes.
C11_Reference ==
  (/\ pc \in {"diffed", "applied"}
   /\ IsContainer(prevIn) /\ IsContainer(nextIn)
   /\ ~ (sameRef /\ prevIn = nextIn))
  => patchesOut = RefDiff(prevIn, nextIn, <<>>)

\* a scalar as the scalar rule names them
ScalarValue(x) == x.t \in {"bool", "num", "str", "null"}

Replace1(pathPrefix, v) == <<[op |-> "replace", path |-> pathPrefix, value |-> v]>>

\* C12 (Diff scalar rule): when prev and next are not identical and at least
\* one is a scalar, diff(prev, next, path) is the one operation replace at
\* path with value next: at the root with the empty path, and in the
\* recursive call for the only member of an array with the path "/0".
C12_ScalarRule ==
  pc \in {"diffed", "applied"} =>
    /\ ((ScalarValue(prevIn) \/ ScalarValue(nextIn)) /\ prevIn # nextIn)
         => patchesOut = Replace1(<<>>, nextIn)
    /\ (/\ prevIn.t = "arr" /\ nextIn.t = "arr"
        /\ Len(prevIn.a) = 1 /\ Len(nextIn.a) = 1
        /\ TypeofObject(prevIn.a[1]) /\ TypeofObject(nextIn.a[1])
        /\ ScalarValue(prevIn.a[1]) \/ ScalarValue(nextIn.a[1])
        /\ prevIn.a[1] # nextIn.a[1])
         => patchesOut = Replace1(<<"/", "0">>, nextIn.a[1])

\* the recursive call diff(prev[0], null, "/0") with prev[0] an object of
\* MaxLen keys has returned the one replace
C12_Witness ==
  /\ pc = "diffed"
  /\ prevIn.t = "arr" /\ Len(prevIn.a) = 1
  /\ prevIn.a[1].t = "obj" /\ Len(prevIn.a[1].ks) = MaxLen
  /\ nextIn = Arr(<<Null>>)
  /\ patchesOut = Replace1(<<"/", "0">>, Null)

RECURSIVE EscapeChars(_)
\* a key with every ~ replaced by ~0 and every / replaced by ~1
EscapeChars(k) ==
  IF k = <<>> THEN <<>>
  ELSE (IF Head(k) = "~" THEN <<"~", "0">>
        ELSE IF Head(k) = "/" THEN <<"~", "1">>
        ELSE <<Head(k)>>) \o EscapeChars(Tail(k))

\* C13 (Path escaping): the segment diff emits for a key is the key with each
\* ~ replaced by ~0 and each / by ~1; JSON Pointer unescaping of the segment
\* gives the key back, and two different keys never get the same path.
C13_PathEscaping ==
  (pc \in {"diffed", "applied"} /\ prevIn.t = "obj" /\ nextIn.t = "obj"
   /\ Len(prevIn.ks) = 1 /\ Len(nextIn.ks) = 1 /\ prevIn.ks # nextIn.ks)
  => /\ Len(patchesOut) = 2
     /\ patchesOut[1].op = "add" /\ patchesOut[2].op = "remove"
     /\ patchesOut[1].path = <<"/">> \o EscapeChars(nextIn.ks[1])
     /\ patchesOut[2].path = <<"/">> \o EscapeChars(prevIn.ks[1])
     /\ Tokens(patchesOut[1].path) = nextIn.ks
     /\ Tokens(patchesOut[2].path) = prevIn.ks
     /\ patchesOut[1].path # patchesOut[2].path

\* diff has emitted the paths of the keys "~1" and "/", which an escaping in
\* the other order would confuse
C13_Witness ==
  /\ pc = "diffed"
  /\ nextIn.t = "obj" /\ nextIn.ks = <<<<"~", "1">>>>
  /\ prevIn.t = "obj" /\ prevIn.ks = <<<<"/">>>>
  /\ patchesOut[1].path = <<"/", "~", "0", "1">>
  /\ patchesOut[2].path = <<"/", "~", "1">>

\* C14 (Diff is total): diff(prev, next) returns a list of add, replace and
\* remove operations and raises no error, whatever the two JSON values are,
\* null included, at the root or below a key.
C14_Total ==
  pc \in {"diffed", "applied"} =>
    \A i \in DOMAIN patchesOut : patchesOut[i].op \in {"add", "replace", "remove"}

\* diff has returned for null below a key whose other side is an array
C14_Witness ==
  /\ pc = "diffed"
  /\ prevIn = Obj(<<<<"a">>>>, <<Null>>)
  /\ nextIn.t = "obj" /\ nextIn.ks = <<<<"a">>>>
  /\ nextIn.vs[1].t = "arr" /\ Len(nextIn.vs[1].a) = MaxLen
  /\ patchesOut = Replace1(<<"/", "a">>, nextIn.vs[1])

(***************************************************************************)
(* Listeners that write.  diff puts next, or next[prop], itself into the   *)
(* value field of a patch, and #notify then stores next as #prev: a        *)
(* container in a value field is the same object as the one at the         *)
(* patch's path in the snapshot, so an assignment to it by a listener that *)
(* received the event is an assignment to the snapshot.                    *)
(***************************************************************************)
\* a listener that received the last event of e performs
\* ev.detail.patches[i].value.string = "z" for some i
ListenerMutates(e) ==
  /\ ~ running
  /\ lastEvent.target = e
  /\ lastEvent.patches # Undefined
  /\ \E i \in DOMAIN lastEvent.patches.l :
       LET patch == lastEvent.patches.l[i]
           written == [op |-> "add", value |-> Str("z")]
       IN /\ patch.op \in {"add", "replace"}
          /\ patch.value.t = "obj"
          /\ Get(patch.value, StringKey) # Str("z")
          /\ lastEvent' = [lastEvent EXCEPT
                             !.patches.l[i].value = ApplyAt(@, <<StringKey>>, written)]
          /\ prev' = [prev EXCEPT
                        ![e] = ApplyAt(@, Tokens(patch.path) \o <<StringKey>>, written)]
  /\ UNCHANGED <<io, asm, tags, dom, diffEnabled, queued, queue, signalSlots, running, ops, watch,
                 update, log, delivered, trig, owed, sent>>

AliasNext ==
  \/ PatchNext
  \/ \E e \in PatchEls : ListenerMutates(e)

AliasSpec == PatchInit /\ [][AliasNext]_vars

(***************************************************************************)
(* Properties of diffing elements.                                         *)
(***************************************************************************)
\* the step is the flush of e
FlushOf(e) == Flush /\ Head(queue).el = e

\* C15 (Flush with diffing): a flush of an element that has diffing enabled
\* dispatches the patches diff(S, J), J the JSON at the flush and S the
\* snapshot, and leaves J as the snapshot; if diffing was enabled at the
\* element's notification before, S is the JSON of that notification.
C15_FlushDiffing ==
  [][\A e \in Elements :
       (FlushOf(e) /\ diffAttr[e]) =>
         /\ lastEvent' = [target |-> e, patches |-> List(diff(prev[e], json(e), <<>>, FALSE))]
         /\ prev'[e] = json(e)
         /\ sent[e].diffing => prev[e] = sent[e].json]_vars

\* a second diffing notification of an element has carried the one change
\* since the first, the added string
C15_Witness ==
  \E e \in Elements :
    /\ lastEvent = [target |-> e,
                    patches |-> List(<<[op |-> "add", path |-> <<"/">> \o StringKey,
                                        value |-> Str("x")]>>)]
    /\ prev[e] = json(e)
    /\ sent[e].diffing

\* C16 (First diffing notification): the first notification that an element
\* dispatches with diffing enabled carries one patch, the replace at the
\* empty path with the element's whole JSON.
C16_FirstDiff ==
  [][\A e \in Elements :
       (FlushOf(e) /\ diffAttr[e] /\ ~ sent[e].ever) =>
         lastEvent'.patches = List(Replace1(<<>>, json(e)))]_vars

\* an element with a string and a child has dispatched its first diffing
\* notification
C16_Witness ==
  \E e \in Elements :
    /\ lastEvent = [target |-> e, patches |-> List(Replace1(<<>>, json(e)))]
    /\ attr[e] # Null
    /\ kids[e] # <<>>
    /\ sent[e].diffing

\* C17 (Diff opt-in by instance property): an element whose class sets the
\* instance field diff = true dispatches every notification with a list of
\* patches, diff attribute or not.
C17_FieldOptIn ==
  \A e \in Elements :
    (diffField /\ lastEvent.target = e) => lastEvent.patches # Undefined

\* C18 (enableDiff gating): while enableDiff() has not been called, no
\* notification carries patches, whatever the diff attributes are.
C18_EnableDiffGating ==
  (~ diffEnabled /\ lastEvent.target \in Elements) => lastEvent.patches = Undefined

\* C19 (Non-diffing instances): an element that had no diff attribute at any
\* of its flushes has dispatched no patches, and its snapshot is null.
C19_NonDiffing ==
  \A e \in Elements :
    ~ sent[e].ever =>
      /\ prev[e] = Null
      /\ lastEvent.target = e => lastEvent.patches = Undefined

\* an element with a string and a child has notified without the diff
\* attribute, while its child has a snapshot
C19_Witness ==
  \E e \in Elements :
    /\ lastEvent = [target |-> e, patches |-> Undefined]
    /\ attr[e] # Null
    /\ ~ sent[e].ever
    /\ prev[e] = Null
    /\ \E c \in Range(kids[e]) : sent[c].ever /\ prev[c] # Null

\* C20 (Snapshot ownership): nothing but the element's own flush changes its
\* snapshot: after a notification with diffing, the snapshot is the JSON the
\* element had at that notification, whatever the listeners did with the
\* event.
C20_Ownership ==
  \A e \in Elements : sent[e].diffing => prev[e] = sent[e].json

(***************************************************************************)
(* Properties of schema compilation and of the json accessor.              *)
(***************************************************************************)
\* a boolean, number, string or null literal
IsLiteral(x) == x.t \in {"bool", "num", "str", "null"}

\* the value of the key in the JSON the host has now
Reading(key) == Get(getJson(TheHost), key)

\* C21 (Literal schema values): for every schema key whose schema input is a
\* boolean, number, string or null literal, constructing the element
\* succeeds, and the JSON of the element has the key with exactly that
\* value, whatever the attributes and children of the element are.
C21_Literals ==
  \A i \in DOMAIN authored :
    IsLiteral(authored[i].value) =>
      /\ thrown = NoError
      /\ hostEl # <<>> => Reading(authored[i].key) = authored[i].value

\* a schema input that is no boolean, number or string, no function and no
\* array
Unrecognized(x) == x.t \notin {"bool", "num", "str", "function", "arr"}

\* an unrecognized input is written directly as the value of a key
InvalidDirect ==
  \E i \in DOMAIN authored : authored[i].value.t # "call" /\ Unrecognized(authored[i].value)

\* an unrecognized input is written as an argument of Enum
InvalidInEnum ==
  \E i \in DOMAIN authored :
    /\ authored[i].value.t = "call"
    /\ \E j \in DOMAIN authored[i].value.args : Unrecognized(authored[i].value.args[j])

InvalidAt(place) == [message |-> "Invalid schema input", at |-> place]

Conforming(key) == SelectSeq(TheHost.light, LAMBDA c : c.slot = key /\ c.inst)

\* the JSON the host has now has the key
Present(key) == key \in Range(getJson(TheHost).ks)

\* C23 (Enumeration): the value of a key declared Enum(a1, ..., an) is the
\* result of the first alternative, in the order written, whose result on the
\* attribute value and the slotted children is not undefined, and the key is
\* omitted when every alternative yields undefined; Enum(String, Object)
\* yields the attribute string when it is not empty and otherwise the JSON of
\* the slotted child.
C23_Enumeration ==
  \A i \in DOMAIN authored :
    (hostEl # <<>> /\ authored[i].value.t = "call") =>
      LET key == authored[i].key
          args == authored[i].value.args
          value == getAttribute(TheHost, key)
          els == Conforming(key)
          result(j) == Call(compile(args[j]), value, els)
          defined == {j \in DOMAIN args : result(j) # Undefined}
      IN /\ IF defined = {} THEN ~ Present(key)
            ELSE /\ Present(key)
                 /\ Reading(key) = result(CHOOSE j \in defined : \A l \in defined : j <= l)
         /\ args = <<StringFn, ObjectFn>> =>
              Reading(key) = IF value \notin {Null, Str("")} THEN value
                             ELSE IF els = <<>> THEN Undefined
                             ELSE getJson(els[1])

\* a key declared Enum(String, Object) whose attribute is the empty string
\* has the JSON of its slotted child
C23_Witness ==
  /\ hostEl # <<>>
  /\ authored[1].value = EnumCall(<<StringFn, ObjectFn>>)
  /\ getAttribute(TheHost, SubjectKey) = Str("")
  /\ Conforming(SubjectKey) # <<>>
  /\ Reading(SubjectKey) = getJson(Conforming(SubjectKey)[1])

\* the key is declared with Object or with a subclass of JSONElement
ObjectKind(x) == x = ObjectFn \/ x = TestSub

\* the key is declared with Array or with an array literal
ArrayKind(x) == x = ArrayFn \/ x.t = "arr"

\* C24 (Object-kind key): the value of an object-kind key is the JSON of the
\* first child, in document order, that has the slot attribute of the key
\* and is a JSONElement instance; children that are no JSONElement instances
\* are passed over, and the key is omitted when there is no such child.
C24_ObjectKey ==
  \A i \in DOMAIN authored :
    (hostEl # <<>> /\ ObjectKind(authored[i].value)) =>
      LET key == authored[i].key
          light == TheHost.light
          fit == {n \in DOMAIN light : light[n].slot = key /\ light[n].inst}
      IN IF fit = {} THEN ~ Present(key)
         ELSE /\ Present(key)
              /\ Reading(key) = getJson(light[CHOOSE n \in fit : \A l \in fit : n <= l])

\* the first child in the slot of an object-kind key is no JSONElement, and
\* the key has the JSON of the second
C24_Witness ==
  /\ hostEl # <<>>
  /\ authored[1].value = ObjectFn
  /\ Len(TheHost.light) = 2
  /\ TheHost.light[1] = Div(SubjectKey)
  /\ TheHost.light[2].inst
  /\ TheHost.light[2].slot = SubjectKey
  /\ Reading(SubjectKey) = getJson(TheHost.light[2])

\* C25 (Array-kind key): the value of an array-kind key is the list of the
\* JSON values of the children that have the slot attribute of the key and
\* are JSONElement instances, one entry for each, in document order; without
\* such a child the key is present with the empty array.
C25_ArrayKey ==
  \A i \in DOMAIN authored :
    (hostEl # <<>> /\ ArrayKind(authored[i].value)) =>
      LET key == authored[i].key
          fit == Conforming(key)
      IN /\ Present(key)
         /\ Reading(key).t = "arr"
         /\ Len(Reading(key).a) = Len(fit)
         /\ \A n \in DOMAIN fit : Reading(key).a[n] = getJson(fit[n])

\* an array-kind key with two slotted children of different JSON, and one
\* with the empty array
C25_Witness ==
  /\ hostEl # <<>>
  /\ authored[1].value = ArrayFn
  /\ Len(Conforming(SubjectKey)) = 2
  /\ Reading(SubjectKey).a[1] # Reading(SubjectKey).a[2]

\* an array-kind key without a conforming child, though it has a child
C25_WitnessEmpty ==
  /\ hostEl # <<>>
  /\ authored[1].value = ArrayFn
  /\ TheHost.light # <<>>
  /\ Reading(SubjectKey) = Arr(<<>>)

\* the marker without its type: Object for a subclass of JSONElement, Array
\* for an array literal
Untyped(x) == IF x = TestSub THEN ObjectFn ELSE IF x.t = "arr" THEN ArrayFn ELSE x

\* the host with its attributes and children, had the class been declared
\* with the markers Object and Array
Plain ==
  LET made == constructor(Obj(classSchema.ks,
                              [i \in DOMAIN classSchema.vs |-> Untyped(classSchema.vs[i])]))
  IN [made EXCEPT !.attrs = TheHost.attrs, !.light = TheHost.light]

\* C26 (Typed markers): in every DOM state, a key declared with a subclass
\* of JSONElement has the slot and the JSON it has when declared with Object,
\* also when the slotted child is of another subclass, and a key declared
\* with an array literal of subclasses those it has when declared with Array.
C26_TypedMarkers ==
  (hostEl # <<>> /\ \E i \in DOMAIN classSchema.vs : Untyped(classSchema.vs[i]) # classSchema.vs[i])
    => /\ Plain.slots = TheHost.slots
       /\ getJson(Plain) = getJson(TheHost)

\* a key declared with the subclass TestSub has the JSON of its slotted
\* child, a TestLeaf
C26_Witness ==
  /\ hostEl # <<>>
  /\ classSchema.vs = <<TestSub>>
  /\ Conforming(SubjectKey) # <<>>
  /\ Reading(SubjectKey) = getJson(Conforming(SubjectKey)[1])
  /\ getJson(Plain) = getJson(TheHost)

\* what the getter of the entry returns in the DOM state of the host
Yield(entry) ==
  LET fn == compile(entry.value)
  IN Call(fn, getAttribute(TheHost, entry.key),
          IF isCompositeSchema(fn) THEN Conforming(entry.key) ELSE <<>>)

\* the entries of the class body, in the order written, whose getter returns
\* a value other than undefined
Yielding == SelectSeq(authored, LAMBDA entry : Yield(entry) # Undefined)

\* the place of the key in the class body
Place(key) == CHOOSE i \in DOMAIN authored : authored[i].key = key

\* the property order of two keys: array indices come first, in ascending
\* order, and the other keys follow in the order written
Precedes(k1, k2) ==
  IF IsIndexKey(k1)
  THEN ~ IsIndexKey(k2) \/ IndexOf(k1) < IndexOf(k2)
  ELSE ~ IsIndexKey(k2) /\ Place(k1) < Place(k2)

\* C27 as stated (Assembly): the keys of the JSON are the schema keys whose
\* getter returns a value other than undefined, each with that value, in the
\* order in which the schema declares them.
C27_Original ==
  hostEl # <<>> =>
    /\ getJson(TheHost).ks = [n \in DOMAIN Yielding |-> Yielding[n].key]
    /\ getJson(TheHost).vs = [n \in DOMAIN Yielding |-> Yield(Yielding[n])]

\* C27 (Assembly, in property order): the keys of the JSON are the schema
\* keys whose getter returns a value other than undefined, each with that
\* value; the keys that are no array indices come in the order in which the
\* schema declares them, whatever the order of the attributes is, and after
\* the keys that are array indices, which come in ascending order.
C27_PropertyOrder ==
  hostEl # <<>> =>
    LET out == getJson(TheHost)
    IN /\ Len(out.ks) = Len(Yielding)
       /\ \A n \in DOMAIN Yielding :
            /\ Yielding[n].key \in Range(out.ks)
            /\ Get(out, Yielding[n].key) = Yield(Yielding[n])
       /\ \A a, b \in DOMAIN out.ks : a < b => Precedes(out.ks[a], out.ks[b])

\* the schema declares b before a, the markup has a before b, and the JSON
\* has b before a
C27_Witness ==
  /\ hostEl # <<>>
  /\ authored = <<[key |-> <<"b">>, value |-> StringFn], [key |-> <<"a">>, value |-> StringFn]>>
  /\ TheHost.attrs = <<[name |-> <<"a">>, value |-> Str("x")],
                        [name |-> <<"b">>, value |-> Str("x")]>>
  /\ getJson(TheHost).ks = <<(<<"b">>), (<<"a">>)>>

Echo(value, els) == Arr(<<value, Arr([n \in DOMAIN els |-> getJson(els[n])])>>)

\* C29 (Custom function arity): a custom schema function of one parameter
\* gets no slot and is called with the attribute value and an empty list of
\* elements, whatever the children are; one of two parameters gets a slot
\* named after its key and is called with the attribute value and the
\* JSONElement children assigned to that slot.
C29_CustomArity ==
  \A i \in DOMAIN authored :
    (hostEl # <<>> /\ authored[i].value \in Customs) =>
      LET key == authored[i].key
          value == getAttribute(TheHost, key)
      IN IF authored[i].value.length = 1
         THEN /\ key \notin Range(TheHost.slots)
              /\ Reading(key) = Echo(value, <<>>)
         ELSE /\ key \in Range(TheHost.slots)
              /\ Reading(key) = Echo(value, Conforming(key))

\* a custom function of one parameter is called with no elements although a
\* JSONElement child has the slot attribute of its key
C29_Witness ==
  /\ hostEl # <<>>
  /\ authored[1].value = Custom(1)
  /\ Conforming(SubjectKey) # <<>>
  /\ Reading(SubjectKey) = Echo(getAttribute(TheHost, SubjectKey), <<>>)

\* a custom function of two parameters is called with the attribute value
\* and the slotted child
C29_WitnessSlotted ==
  /\ hostEl # <<>>
  /\ authored[1].value = Custom(2)
  /\ getAttribute(TheHost, SubjectKey) # Null
  /\ Conforming(SubjectKey) # <<>>
  /\ Reading(SubjectKey) = Echo(getAttribute(TheHost, SubjectKey), Conforming(SubjectKey))

\* C30 (Boolean coercion): a key declared Boolean is in the JSON in every
\* DOM state, with the value true when the host has the attribute, whatever
\* its string is, and false when it has not.
C30_Boolean ==
  \A i \in DOMAIN authored :
    (hostEl # <<>> /\ authored[i].value = BooleanFn) =>
      /\ Present(authored[i].key)
      /\ Reading(authored[i].key) =
           Bool(\E n \in DOMAIN TheHost.attrs : TheHost.attrs[n].name = authored[i].key)

\* a key declared Boolean is true with the attribute set to the empty string
C30_Witness ==
  /\ hostEl # <<>>
  /\ authored[1].value = BooleanFn
  /\ TheHost.attrs = <<[name |-> SubjectKey, value |-> Str("")]>>
  /\ Reading(SubjectKey) = Bool(TRUE)

\* a key declared Boolean is false after its attribute was removed
C30_WitnessAbsent ==
  /\ hostEl # <<>>
  /\ authored[1].value = BooleanFn
  /\ TheHost.attrs = <<>>
  /\ TheHost.queued
  /\ Reading(SubjectKey) = Bool(FALSE)

(***************************************************************************)
(* Properties of removal, of the pending flag, of quiescence and of the    *)
(* triggers raised while a notification is dispatched.                     *)
(***************************************************************************)
\* c was removed from its parent, whose slot change is signalled and whose
\* slotchange event is not yet fired
Removed(c) == Parent(c) = None /\ Home(c) \in Elements /\ Home(c) \in Range(signalSlots)

\* p has received the slotchange event and has dispatched a notification since
Notified(p) == p \in Elements /\ p \notin Range(signalSlots) /\ ~ trig[p] /\ ~ queued[p]

\* the entries of the array a of p that are not the entry of the child c
Without(p, a, c) ==
  LET keep == SelectSeq([i \in DOMAIN kids[p] |-> i], LAMBDA i : kids[p][i] # c)
  IN Arr([i \in DOMAIN keep |-> a.a[keep[i]]])

\* C31 (Removal notification), under the fairness of the event loop: the
\* removal of a child slotted in a parent takes the child's JSON out of the
\* array of the parent's json and keeps the JSON of the other children, in
\* order; the parent receives the slotchange event and dispatches a
\* notification afterwards, and at that notification its array holds the
\* JSON of the children it has, none of a removed child.
C31_Removal ==
  /\ \A c \in Elements : Removed(c) ~> Notified(Home(c))
  /\ [][\A c \in Elements :
          (Parent(c) \in Elements /\ Parent(c)' = None) =>
            /\ Removed(c)'
            /\ Get(json(Home(c)), ArrayKey)'
                 = Without(Home(c), Get(json(Home(c)), ArrayKey), c)]_vars
  /\ [][\A p \in Elements :
          (trig[p] /\ ~ trig'[p]) =>
            /\ Len(Get(json(p), ArrayKey).a)' = Len(kids[p])'
            /\ \A c \in Elements : Parent(c)' = None => c \notin Range(slotted(p))']_vars

\* a child connected under its parent and removed by the same script, the
\* parent keeping another child and its slotchange event not yet fired
C31_Witness ==
  \E c \in Elements :
    /\ ~ running
    /\ Removed(c)
    /\ queued[c] /\ attr[c] = Null
    /\ kids[Home(c)] # <<>>
    /\ ~ queued[Home(c)]

\* C32 as claimed: after any sequence of register calls, each tag is bound to
\* the class of the first register call made under it.
C32_Original ==
  \A t \in Tags : firstCall[t] # NoClass => definitions[t] = firstCall[t]

\* C32 (Duplicate registration), amended: a tag once bound stays bound to its
\* class, and is bound by the first register call under it unless that class
\* was already registered under another tag; a register call of another
\* class under a bound tag raises no error, warns and leaves the registry
\* unchanged, a call of the same class under its tag does nothing; a
\* register call raises only for a class already registered under another
\* tag, and then leaves the registry unchanged.
C32_Registration ==
  /\ [](\A t \in Tags :
          firstCall[t] # NoClass =>
            \/ definitions[t] = firstCall[t]
            \/ \E u \in Tags \ {t} : definitions[u] = firstCall[t])
  /\ [](lastCall.threw # "none" =>
          /\ definitions[lastCall.tag] # lastCall.class
          /\ \E u \in Tags \ {lastCall.tag} : definitions[u] = lastCall.class)
  /\ [][\A t \in Tags :
          /\ definitions[t] # NoClass => definitions'[t] = definitions[t]
          /\ (definitions[t] = NoClass /\ definitions'[t] # NoClass) =>
               lastCall' = [class |-> definitions'[t], tag |-> t, threw |-> "none",
                            warned |-> FALSE]
          /\ (definitions[t] # NoClass /\ lastCall'.tag = t /\ lastCall' # lastCall) =>
               /\ definitions' = definitions
               /\ lastCall'.threw = "none"
               /\ lastCall'.warned = (lastCall'.class # definitions[t])]_vars

\* B was registered under a tag bound to A, the first class registered under
\* it
C32_Witness ==
  /\ definitions["x-a"] = "A"
  /\ firstCall["x-a"] = "A"
  /\ lastCall = [class |-> "B", tag |-> "x-a", threw |-> "none", warned |-> TRUE]
  /\ definitions["x-b"] = NoClass

\* the flush tasks of e that are scheduled and not yet run
Flushes(e) == {i \in DOMAIN queue : queue[i].type = "notify" /\ queue[i].el = e}

\* C33 (At most one pending flush): every element has at most one flush task
\* in the microtask queue, and its #queued is true exactly when it has one; a
\* trigger that a script raises on an element whose flush is pending leaves
\* the flag set and schedules nothing for it.
C33_OnePending ==
  /\ [](\A e \in Elements : Cardinality(Flushes(e)) = IF queued[e] THEN 1 ELSE 0)
  /\ [][\A e \in Elements :
          (running /\ queued[e]) =>
            /\ queued'[e]
            /\ Cardinality(Flushes(e))' = 1
            /\ IsPrefix(queue, queue')]_vars

\* a script has mutated the attribute of one element twice, and its one flush
\* is pending
C33_Witness ==
  \E e \in Elements :
    /\ running
    /\ ops = 2 /\ OnlyMutated({e})
    /\ queued[e]
    /\ Cardinality(Flushes(e)) = 1

\* every element is idle and no microtask is queued
Idle == Quiescent /\ \A e \in Elements : ~ queued[e]

RECURSIVE Total(_, _)
\* f[1] + ... + f[n]
Total(f, n) == IF n = 0 THEN 0 ELSE f[n] + Total(f, n - 1)

\* what is left to do before the queue is drained: the pending flushes, and
\* the flushes that the slotchange events not yet fired will schedule, each
\* counted with the flushes of the ancestors it can cause
Measure ==
  Total([e \in Elements |-> IF queued[e] THEN Depth(e) + 1 ELSE 0], NumEls)
  + Total([e \in Elements |-> IF e \in Range(signalSlots) THEN Depth(e) + 1 ELSE 0], NumEls)
  + (IF signalSlots # <<>> THEN 1 ELSE 0)

\* C34 (No self-reprocessing and quiescence), under the fairness of the event
\* loop: the flush of an element leaves it idle, with no flush scheduled by
\* its own notification; every microtask brings the queue nearer to empty,
\* so that after every script the system reaches a state with every element
\* idle and no task queued.
C34_Quiescence ==
  /\ []<>Idle
  /\ [][(~ running /\ queue # <<>>) => (Measure' < Measure /\ Measure' >= 0)]_vars
  /\ [][\A e \in Elements :
          (~ running /\ queue # <<>> /\ Head(queue) \in [type : {"notify"}, el : {e}, by : Int]) =>
            /\ ~ queued'[e]
            /\ Flushes(e)' = {}]_vars

\* the flush of a parent is at the head of the queue after its child's, the
\* parent with a string of its own
C34_Witness ==
  \E p \in Elements : \E c \in Range(kids[p]) :
    /\ ~ running
    /\ queue # <<>> /\ Head(queue) = [type |-> "notify", el |-> p, by |-> c]
    /\ attr[p] = Str("x")
    /\ ~ queued[c]

(***************************************************************************)
(* Properties of the slots.                                                *)
(***************************************************************************)
\* the key is declared with an enumeration
EnumKind(x) == x.t = "call"

\* the key is composite: object, array, enumeration or custom function of
\* two parameters
CompositeKind(x) == ObjectKind(x) \/ ArrayKind(x) \/ EnumKind(x) \/ x = Custom(2)

\* the composite keys of the class, in the order written
CompositeKeys ==
  LET entries == SelectSeq(authored, LAMBDA en : CompositeKind(en.value))
  IN [i \in DOMAIN entries |-> entries[i].key]

\* C35 (Slot placeholders are fixed): the named slots of an instance are those
\* of the composite keys of its schema (object, array, enumeration and
\* two-parameter custom keys), from its construction on; no attribute
\* mutation, insertion or removal of a child, slotchange event, flush or read
\* of json changes them.
C35_SlotsFixed ==
  /\ [](hostEl # <<>> => TheHost.slots = CompositeKeys)
  /\ [][(hostEl # <<>> /\ hostEl' # <<>>) => TheHost.slots' = TheHost.slots]_vars

\* an instance with a slot, an attribute and two slotted children, that has
\* flushed and whose json was read
C35_Witness ==
  /\ hostEl # <<>>
  /\ TheHost.slots = <<SubjectKey>>
  /\ TheHost.attrs # <<>>
  /\ Len(TheHost.light) = 2
  /\ ~ TheHost.queued /\ ~ signal
  /\ reads # <<>>

\* an instance without slots in the same state
C35_WitnessNoSlot ==
  /\ hostEl # <<>>
  /\ TheHost.slots = <<>>
  /\ TheHost.attrs # <<>>
  /\ Len(TheHost.light) = 2
  /\ ~ TheHost.queued /\ ~ signal
  /\ reads # <<>>

\* the JSON of an element of one key whose getter returned the value
Single(key, value) ==
  IF value.t = "throw" THEN value
  ELSE IF value = Undefined THEN Obj(<<>>, <<>>)
  ELSE Obj(<<key>>, <<value>>)

\* C36 (Slot creation and slot resolution agree): for every schema input that
\* compiles (literal, Boolean, Number, String, Object, JSONElement subclass,
\* Array, array literal, Enum result, custom function of zero to three
\* parameters), the key has a slot exactly when the raw input is composite,
\* and exactly when the compiled getter is; the json accessor hands the
\* getter the JSONElement children assigned to the slot when there is one,
\* and no elements when there is none.
C36_SlotsAgree ==
  hostEl # <<>> =>
    \A i \in DOMAIN classSchema.ks :
      LET key == classSchema.ks[i]
          fn == TheHost.compiled.vs[i]
          made == key \in Range(TheHost.slots)
          value == Call(fn, getAttribute(TheHost, key),
                        IF made THEN Conforming(key) ELSE <<>>)
      IN /\ made = isCompositeSchema(classSchema.vs[i])
         /\ made = isCompositeSchema(fn)
         /\ getJson(TheHost) = Single(key, value)

\* a key declared with Object whose slot holds a JSONElement child
C36_Witness ==
  /\ hostEl # <<>>
  /\ classSchema.vs = <<ObjectFn>>
  /\ TheHost.slots = <<SubjectKey>>
  /\ Conforming(SubjectKey) # <<>>
  /\ Present(SubjectKey)

\* a key declared with a custom function of three parameters, with a child
C36_WitnessCustom ==
  /\ hostEl # <<>>
  /\ classSchema.vs = <<Custom(3)>>
  /\ TheHost.slots = <<SubjectKey>>
  /\ Conforming(SubjectKey) # <<>>

\* a key declared with a custom function of no parameter, with a child
C36_WitnessNoSlot ==
  /\ hostEl # <<>>
  /\ classSchema.vs = <<Custom(0)>>
  /\ TheHost.slots = <<>>
  /\ TheHost.light # <<>>

ConstructedJson == Obj(<<ArrayKey>>, <<Arr(<<>>)>>)

\* the JSON e had at its last notification, or as constructed if it has
\* dispatched none
LastJson(e) == IF sent[e].json = Null THEN ConstructedJson ELSE sent[e].json

C39_Definedness ==
  \A i \in DOMAIN authored :
    (hostEl # <<>> /\ EnumKind(authored[i].value)) =>
      LET key == authored[i].key
          args == authored[i].value.args
          value == getAttribute(TheHost, key)
          result(j) == Call(compile(args[j]), value, Conforming(key))
      IN /\ \A j \in DOMAIN args :
              (result(j) # Undefined /\ \A l \in 1..(j - 1) : result(l) = Undefined) =>
                (Present(key) /\ Reading(key) = result(j))
         /\ (args # <<>> /\ args[1] = BooleanFn) =>
              (Present(key) /\ Reading(key) = Bool(value # Null))

\* Enum(Boolean, Object): the attribute is absent and a child is slotted, the
\* value is false
C39_Witness ==
  /\ hostEl # <<>>
  /\ authored[1].value = EnumCall(<<BooleanFn, ObjectFn>>)
  /\ getAttribute(TheHost, SubjectKey) = Null
  /\ Conforming(SubjectKey) # <<>>
  /\ Reading(SubjectKey) = Bool(FALSE)

\* Enum(Number, Object): the attribute is the empty string and a child is
\* slotted, the value is 0
C39_WitnessZero ==
  /\ hostEl # <<>>
  /\ authored[1].value = EnumCall(<<NumberFn, ObjectFn>>)
  /\ getAttribute(TheHost, SubjectKey) = Str("")
  /\ Conforming(SubjectKey) # <<>>
  /\ Reading(SubjectKey) = Num(0)

====
